---- MODULE Spec2Model ----
(***************************************************************************)
(* Model of the LIFEXIA query resolution engine (backend/services/         *)
(* rag_service.py), the WhatsApp webhook's query routing (backend/routes/  *)
(* webhook_routes.py) and the in-memory conversation store (code/backend/  *)
(* services/chat_store.py).                                                *)
(*                                                                         *)
(* Text is a sequence of one-character strings, so that lower(), strip(),  *)
(* split(), substring tests and the regular expressions of the resolver    *)
(* are computed character by character as the Python code computes them.   *)
(***************************************************************************)
EXTENDS Integers, Sequences, FiniteSets, TLC

----------------------------------------------------------------------------
(* Python str primitives                                                   *)

UpperChars == <<"A","B","C","D","E","F","G","H","I","J","K","L","M",
                "N","O","P","Q","R","S","T","U","V","W","X","Y","Z">>

LowerChars == <<"a","b","c","d","e","f","g","h","i","j","k","l","m",
                "n","o","p","q","r","s","t","u","v","w","x","y","z">>

\* str.lower() on one character
LowerChar(c) ==
  IF \E i \in 1..26 : UpperChars[i] = c
    THEN LowerChars[CHOOSE i \in 1..26 : UpperChars[i] = c]
    ELSE c

\* str.upper() on one character
UpperChar(c) ==
  IF \E i \in 1..26 : LowerChars[i] = c
    THEN UpperChars[CHOOSE i \in 1..26 : LowerChars[i] = c]
    ELSE c

\* str.lower()
Lower(s) == [i \in 1..Len(s) |-> LowerChar(s[i])]

\* the characters str.strip(), str.split() and the regex class \s treat as
\* whitespace
IsSpace(c) == c \in {" ", "\t", "\n"}

\* index of the first non-whitespace character at or after i (Len(s)+1 if none)
RECURSIVE SkipSpaces(_, _)
SkipSpaces(s, i) ==
  IF i <= Len(s) /\ IsSpace(s[i]) THEN SkipSpaces(s, i + 1) ELSE i

\* index of the last non-whitespace character at or before i (0 if none)
RECURSIVE SkipSpacesBack(_, _)
SkipSpacesBack(s, i) ==
  IF i >= 1 /\ IsSpace(s[i]) THEN SkipSpacesBack(s, i - 1) ELSE i

\* str.strip()
Strip(s) == SubSeq(s, SkipSpaces(s, 1), SkipSpacesBack(s, Len(s)))

\* does t occur in s starting at index i
OccursAt(s, i, t) ==
  /\ i >= 1
  /\ i + Len(t) - 1 <= Len(s)
  /\ \A j \in 1..Len(t) : s[i + j - 1] = t[j]

\* Python's  t in s
Contains(s, t) == \E i \in 1..(Len(s) - Len(t) + 1) : OccursAt(s, i, t)

\* str.startswith
StartsWith(s, t) == OccursAt(s, 1, t)

\* index of the first whitespace character at or after i (Len(s)+1 if none)
RECURSIVE SkipWord(_, _)
SkipWord(s, i) ==
  IF i <= Len(s) /\ ~IsSpace(s[i]) THEN SkipWord(s, i + 1) ELSE i

\* str.split() with no argument: the maximal runs of non-whitespace, from
\* index i on
RECURSIVE SplitFrom(_, _)
SplitFrom(s, i) ==
  LET b == SkipSpaces(s, i)
      e == SkipWord(s, b)
  IN IF b > Len(s) THEN <<>>
     ELSE <<SubSeq(s, b, e - 1)>> \o SplitFrom(s, e)

Split(s) == SplitFrom(s, 1)

\* " ".join(words[i:j]) for 0-based slice bounds i < j <= len(words)
RECURSIVE JoinSlice(_, _, _)
JoinSlice(words, i, j) ==
  IF j = i + 1 THEN words[j]
  ELSE JoinSlice(words, i, j - 1) \o <<" ">> \o words[j]

Min(a, b) == IF a <= b THEN a ELSE b

----------------------------------------------------------------------------
(* The verified fact store and its alias table, in dict insertion order.   *)
(* Only the fields the resolver, the formatters and the catalog read are   *)
(* kept; free-text clinical fields are represented by their presence and   *)
(* list lengths.                                                           *)

DRUG_DATABASE ==
  <<
   [key |-> <<"p","a","r","a","c","e","t","a","m","o","l">>,
    name |-> <<"P","a","r","a","c","e","t","a","m","o","l"," ","(","A","c","e","t","a","m","i","n","o","p","h","e","n",")">>,
    generic |-> <<"P","a","r","a","c","e","t","a","m","o","l">>,
    nlem |-> TRUE, emergency_use |-> TRUE,
    has_pharmacology |-> TRUE, has_elderly |-> TRUE,
    n_side_effects |-> 4, n_contraindications |-> 3, n_interactions |-> 4],
   [key |-> <<"a","s","p","i","r","i","n">>,
    name |-> <<"A","s","p","i","r","i","n"," ","(","A","c","e","t","y","l","s","a","l","i","c","y","l","i","c"," ","A","c","i","d",")">>,
    generic |-> <<"A","s","p","i","r","i","n">>,
    nlem |-> TRUE, emergency_use |-> TRUE,
    has_pharmacology |-> TRUE, has_elderly |-> TRUE,
    n_side_effects |-> 5, n_contraindications |-> 5, n_interactions |-> 5],
   [key |-> <<"i","b","u","p","r","o","f","e","n">>,
    name |-> <<"I","b","u","p","r","o","f","e","n">>,
    generic |-> <<"I","b","u","p","r","o","f","e","n">>,
    nlem |-> TRUE, emergency_use |-> TRUE,
    has_pharmacology |-> TRUE, has_elderly |-> TRUE,
    n_side_effects |-> 6, n_contraindications |-> 5, n_interactions |-> 6],
   [key |-> <<"a","m","o","x","i","c","i","l","l","i","n">>,
    name |-> <<"A","m","o","x","i","c","i","l","l","i","n">>,
    generic |-> <<"A","m","o","x","i","c","i","l","l","i","n">>,
    nlem |-> TRUE, emergency_use |-> TRUE,
    has_pharmacology |-> TRUE, has_elderly |-> TRUE,
    n_side_effects |-> 5, n_contraindications |-> 3, n_interactions |-> 4],
   [key |-> <<"m","e","t","f","o","r","m","i","n">>,
    name |-> <<"M","e","t","f","o","r","m","i","n">>,
    generic |-> <<"M","e","t","f","o","r","m","i","n"," ","H","y","d","r","o","c","h","l","o","r","i","d","e">>,
    nlem |-> TRUE, emergency_use |-> FALSE,
    has_pharmacology |-> TRUE, has_elderly |-> TRUE,
    n_side_effects |-> 4, n_contraindications |-> 5, n_interactions |-> 4],
   [key |-> <<"a","m","l","o","d","i","p","i","n","e">>,
    name |-> <<"A","m","l","o","d","i","p","i","n","e">>,
    generic |-> <<"A","m","l","o","d","i","p","i","n","e"," ","B","e","s","y","l","a","t","e">>,
    nlem |-> TRUE, emergency_use |-> FALSE,
    has_pharmacology |-> TRUE, has_elderly |-> TRUE,
    n_side_effects |-> 6, n_contraindications |-> 4, n_interactions |-> 4],
   [key |-> <<"o","m","e","p","r","a","z","o","l","e">>,
    name |-> <<"O","m","e","p","r","a","z","o","l","e">>,
    generic |-> <<"O","m","e","p","r","a","z","o","l","e">>,
    nlem |-> TRUE, emergency_use |-> FALSE,
    has_pharmacology |-> TRUE, has_elderly |-> TRUE,
    n_side_effects |-> 7, n_contraindications |-> 2, n_interactions |-> 6],
   [key |-> <<"c","e","t","i","r","i","z","i","n","e">>,
    name |-> <<"C","e","t","i","r","i","z","i","n","e">>,
    generic |-> <<"C","e","t","i","r","i","z","i","n","e"," ","H","y","d","r","o","c","h","l","o","r","i","d","e">>,
    nlem |-> TRUE, emergency_use |-> FALSE,
    has_pharmacology |-> TRUE, has_elderly |-> TRUE,
    n_side_effects |-> 5, n_contraindications |-> 3, n_interactions |-> 3],
   [key |-> <<"a","t","o","r","v","a","s","t","a","t","i","n">>,
    name |-> <<"A","t","o","r","v","a","s","t","a","t","i","n">>,
    generic |-> <<"A","t","o","r","v","a","s","t","a","t","i","n"," ","C","a","l","c","i","u","m">>,
    nlem |-> TRUE, emergency_use |-> FALSE,
    has_pharmacology |-> TRUE, has_elderly |-> TRUE,
    n_side_effects |-> 5, n_contraindications |-> 4, n_interactions |-> 6],
   [key |-> <<"e","p","i","n","e","p","h","r","i","n","e">>,
    name |-> <<"E","p","i","n","e","p","h","r","i","n","e"," ","(","A","d","r","e","n","a","l","i","n","e",")">>,
    generic |-> <<"E","p","i","n","e","p","h","r","i","n","e">>,
    nlem |-> TRUE, emergency_use |-> TRUE,
    has_pharmacology |-> TRUE, has_elderly |-> TRUE,
    n_side_effects |-> 6, n_contraindications |-> 1, n_interactions |-> 4],
   [key |-> <<"d","i","a","z","e","p","a","m">>,
    name |-> <<"D","i","a","z","e","p","a","m">>,
    generic |-> <<"D","i","a","z","e","p","a","m">>,
    nlem |-> TRUE, emergency_use |-> TRUE,
    has_pharmacology |-> TRUE, has_elderly |-> TRUE,
    n_side_effects |-> 6, n_contraindications |-> 5, n_interactions |-> 4],
   [key |-> <<"s","a","l","b","u","t","a","m","o","l">>,
    name |-> <<"S","a","l","b","u","t","a","m","o","l"," ","(","A","l","b","u","t","e","r","o","l",")">>,
    generic |-> <<"S","a","l","b","u","t","a","m","o","l"," ","S","u","l","f","a","t","e">>,
    nlem |-> TRUE, emergency_use |-> TRUE,
    has_pharmacology |-> TRUE, has_elderly |-> TRUE,
    n_side_effects |-> 6, n_contraindications |-> 1, n_interactions |-> 4],
   [key |-> <<"c","i","p","r","o","f","l","o","x","a","c","i","n">>,
    name |-> <<"C","i","p","r","o","f","l","o","x","a","c","i","n">>,
    generic |-> <<"C","i","p","r","o","f","l","o","x","a","c","i","n"," ","H","y","d","r","o","c","h","l","o","r","i","d","e">>,
    nlem |-> TRUE, emergency_use |-> FALSE,
    has_pharmacology |-> TRUE, has_elderly |-> TRUE,
    n_side_effects |-> 7, n_contraindications |-> 4, n_interactions |-> 5],
   [key |-> <<"l","o","s","a","r","t","a","n">>,
    name |-> <<"L","o","s","a","r","t","a","n">>,
    generic |-> <<"L","o","s","a","r","t","a","n"," ","P","o","t","a","s","s","i","u","m">>,
    nlem |-> TRUE, emergency_use |-> FALSE,
    has_pharmacology |-> TRUE, has_elderly |-> TRUE,
    n_side_effects |-> 6, n_contraindications |-> 4, n_interactions |-> 4],
   [key |-> <<"i","n","s","u","l","i","n">>,
    name |-> <<"I","n","s","u","l","i","n"," ","(","H","u","m","a","n","/","A","n","a","l","o","g",")">>,
    generic |-> <<"I","n","s","u","l","i","n">>,
    nlem |-> TRUE, emergency_use |-> TRUE,
    has_pharmacology |-> TRUE, has_elderly |-> TRUE,
    n_side_effects |-> 5, n_contraindications |-> 2, n_interactions |-> 5]
  >>

DRUG_ALIASES ==
  <<
   [alias |-> <<"a","c","e","t","a","m","i","n","o","p","h","e","n">>, key |-> <<"p","a","r","a","c","e","t","a","m","o","l">>],
   [alias |-> <<"t","y","l","e","n","o","l">>, key |-> <<"p","a","r","a","c","e","t","a","m","o","l">>],
   [alias |-> <<"c","r","o","c","i","n">>, key |-> <<"p","a","r","a","c","e","t","a","m","o","l">>],
   [alias |-> <<"d","o","l","o">>, key |-> <<"p","a","r","a","c","e","t","a","m","o","l">>],
   [alias |-> <<"d","o","l","o"," ","6","5","0">>, key |-> <<"p","a","r","a","c","e","t","a","m","o","l">>],
   [alias |-> <<"c","a","l","p","o","l">>, key |-> <<"p","a","r","a","c","e","t","a","m","o","l">>],
   [alias |-> <<"d","i","s","p","r","i","n">>, key |-> <<"a","s","p","i","r","i","n">>],
   [alias |-> <<"e","c","o","s","p","r","i","n">>, key |-> <<"a","s","p","i","r","i","n">>],
   [alias |-> <<"a","c","e","t","y","l","s","a","l","i","c","y","l","i","c"," ","a","c","i","d">>, key |-> <<"a","s","p","i","r","i","n">>],
   [alias |-> <<"b","r","u","f","e","n">>, key |-> <<"i","b","u","p","r","o","f","e","n">>],
   [alias |-> <<"a","d","v","i","l">>, key |-> <<"i","b","u","p","r","o","f","e","n">>],
   [alias |-> <<"m","o","t","r","i","n">>, key |-> <<"i","b","u","p","r","o","f","e","n">>],
   [alias |-> <<"c","o","m","b","i","f","l","a","m">>, key |-> <<"i","b","u","p","r","o","f","e","n">>],
   [alias |-> <<"a","u","g","m","e","n","t","i","n">>, key |-> <<"a","m","o","x","i","c","i","l","l","i","n">>],
   [alias |-> <<"a","m","o","x","y","c","l","a","v">>, key |-> <<"a","m","o","x","i","c","i","l","l","i","n">>],
   [alias |-> <<"m","o","x">>, key |-> <<"a","m","o","x","i","c","i","l","l","i","n">>],
   [alias |-> <<"g","l","y","c","o","m","e","t">>, key |-> <<"m","e","t","f","o","r","m","i","n">>],
   [alias |-> <<"g","l","u","c","o","p","h","a","g","e">>, key |-> <<"m","e","t","f","o","r","m","i","n">>],
   [alias |-> <<"a","m","l","o","k","i","n","d">>, key |-> <<"a","m","l","o","d","i","p","i","n","e">>],
   [alias |-> <<"s","t","a","m","l","o">>, key |-> <<"a","m","l","o","d","i","p","i","n","e">>],
   [alias |-> <<"n","o","r","v","a","s","c">>, key |-> <<"a","m","l","o","d","i","p","i","n","e">>],
   [alias |-> <<"p","r","i","l","o","s","e","c">>, key |-> <<"o","m","e","p","r","a","z","o","l","e">>],
   [alias |-> <<"o","m","e","z">>, key |-> <<"o","m","e","p","r","a","z","o","l","e">>],
   [alias |-> <<"z","y","r","t","e","c">>, key |-> <<"c","e","t","i","r","i","z","i","n","e">>],
   [alias |-> <<"a","l","e","r","i","d">>, key |-> <<"c","e","t","i","r","i","z","i","n","e">>],
   [alias |-> <<"c","e","t","z","i","n","e">>, key |-> <<"c","e","t","i","r","i","z","i","n","e">>],
   [alias |-> <<"l","i","p","i","t","o","r">>, key |-> <<"a","t","o","r","v","a","s","t","a","t","i","n">>],
   [alias |-> <<"a","t","o","r","v","a">>, key |-> <<"a","t","o","r","v","a","s","t","a","t","i","n">>],
   [alias |-> <<"a","d","r","e","n","a","l","i","n","e">>, key |-> <<"e","p","i","n","e","p","h","r","i","n","e">>],
   [alias |-> <<"e","p","i","p","e","n">>, key |-> <<"e","p","i","n","e","p","h","r","i","n","e">>],
   [alias |-> <<"v","a","l","i","u","m">>, key |-> <<"d","i","a","z","e","p","a","m">>],
   [alias |-> <<"c","a","l","m","p","o","s","e">>, key |-> <<"d","i","a","z","e","p","a","m">>],
   [alias |-> <<"v","e","n","t","o","l","i","n">>, key |-> <<"s","a","l","b","u","t","a","m","o","l">>],
   [alias |-> <<"a","s","t","h","a","l","i","n">>, key |-> <<"s","a","l","b","u","t","a","m","o","l">>],
   [alias |-> <<"a","l","b","u","t","e","r","o","l">>, key |-> <<"s","a","l","b","u","t","a","m","o","l">>],
   [alias |-> <<"c","i","p","l","o","x">>, key |-> <<"c","i","p","r","o","f","l","o","x","a","c","i","n">>],
   [alias |-> <<"c","i","p","r","o">>, key |-> <<"c","i","p","r","o","f","l","o","x","a","c","i","n">>],
   [alias |-> <<"c","o","z","a","a","r">>, key |-> <<"l","o","s","a","r","t","a","n">>],
   [alias |-> <<"l","o","s","a","c","a","r">>, key |-> <<"l","o","s","a","r","t","a","n">>],
   [alias |-> <<"r","e","p","a","c","e">>, key |-> <<"l","o","s","a","r","t","a","n">>],
   [alias |-> <<"h","u","m","u","l","i","n">>, key |-> <<"i","n","s","u","l","i","n">>],
   [alias |-> <<"l","a","n","t","u","s">>, key |-> <<"i","n","s","u","l","i","n">>],
   [alias |-> <<"n","o","v","o","r","a","p","i","d">>, key |-> <<"i","n","s","u","l","i","n">>],
   [alias |-> <<"n","o","v","o","l","o","g">>, key |-> <<"i","n","s","u","l","i","n">>],
   [alias |-> <<"h","u","m","a","l","o","g">>, key |-> <<"i","n","s","u","l","i","n">>],
   [alias |-> <<"a","c","t","r","a","p","i","d">>, key |-> <<"i","n","s","u","l","i","n">>],
   [alias |-> <<"m","i","x","t","a","r","d">>, key |-> <<"i","n","s","u","l","i","n">>]
  >>

\* the value of a Python None result of the resolver
NoDrug == 0

\* the outcome of a dict lookup that raises KeyError
KeyError == -1

\* self.drug_db[key]: the position of the record stored under key
db_lookup(key) ==
  IF \E i \in 1..Len(DRUG_DATABASE) : DRUG_DATABASE[i].key = key
    THEN CHOOSE i \in 1..Len(DRUG_DATABASE) : DRUG_DATABASE[i].key = key
    ELSE KeyError

\* the test of one record in the "Partial match" loop of _find_drug
partial_match(drug_data, query_lower) ==
  \/ Contains(query_lower, drug_data.key)
  \/ Contains(drug_data.key, query_lower)
  \/ Contains(query_lower, Lower(drug_data.generic))
  \/ Contains(Lower(drug_data.generic), query_lower)
  \/ StartsWith(Lower(drug_data.name), query_lower)
  \/ Contains(Lower(drug_data.name), query_lower)

\* the test of one entry in the "Alias partial match" loop of _find_drug
alias_partial_match(entry, query_lower) ==
  \/ Contains(query_lower, entry.alias)
  \/ Contains(entry.alias, query_lower)

\* normalize without the call of lower()
normalize_no_lower(query) == Strip(query)

\* query.lower().strip() in _find_drug
normalize(query) == Strip(Lower(query))

\* "Direct match": the record stored under query_lower, NoDrug if none
direct_match(query_lower) ==
  IF \E i \in 1..Len(DRUG_DATABASE) : DRUG_DATABASE[i].key = query_lower
    THEN db_lookup(query_lower)
    ELSE NoDrug

\* alias_match looking the alias itself up in drug_db, not the key it maps to
alias_match_unmapped(query_lower) ==
  IF \E a \in 1..Len(DRUG_ALIASES) : DRUG_ALIASES[a].alias = query_lower
    THEN db_lookup(query_lower)
    ELSE NoDrug

\* "Alias match": the record stored under the key that alias query_lower
\* maps to, NoDrug if query_lower is no alias
alias_match(query_lower) ==
  LET A == {a \in 1..Len(DRUG_ALIASES) : DRUG_ALIASES[a].alias = query_lower}
  IN IF A # {} THEN db_lookup(DRUG_ALIASES[CHOOSE a \in A : TRUE].key)
     ELSE NoDrug

\* "Partial match": the first record, in dict order, that passes the test
first_partial_match(query_lower) ==
  LET D == {i \in 1..Len(DRUG_DATABASE) :
              partial_match(DRUG_DATABASE[i], query_lower)}
  IN IF D # {} THEN CHOOSE i \in D : \A h \in D : i <= h
     ELSE NoDrug

\* the alias partial match looking the alias up in drug_db, not its key
first_alias_partial_match_unmapped(query_lower) ==
  LET A == {a \in 1..Len(DRUG_ALIASES) :
              alias_partial_match(DRUG_ALIASES[a], query_lower)}
  IN IF A # {}
       THEN db_lookup(DRUG_ALIASES[CHOOSE a \in A : \A h \in A : a <= h].alias)
     ELSE NoDrug

\* "Alias partial match": the record of the first alias, in dict order, that
\* passes the test
first_alias_partial_match(query_lower) ==
  LET A == {a \in 1..Len(DRUG_ALIASES) :
              alias_partial_match(DRUG_ALIASES[a], query_lower)}
  IN IF A # {}
       THEN db_lookup(DRUG_ALIASES[CHOOSE a \in A : \A h \in A : a <= h].key)
     ELSE NoDrug

\* RAGService._find_drug: the position in DRUG_DATABASE of the record
\* returned, NoDrug for None, KeyError when a lookup raises
find_drug(query) ==
  LET query_lower == normalize(query)
  IN IF direct_match(query_lower) # NoDrug
       THEN direct_match(query_lower)
     ELSE IF alias_match(query_lower) # NoDrug
       THEN alias_match(query_lower)
     ELSE IF first_partial_match(query_lower) # NoDrug
       THEN first_partial_match(query_lower)
     ELSE first_alias_partial_match(query_lower)

\* RAGService.search_drug
search_drug(drug_name) == find_drug(drug_name)

----------------------------------------------------------------------------
(* The extraction patterns of _extract_drug_from_query under re.search     *)
(* with re.IGNORECASE.  Every pattern has the shape                        *)
(*     PREFIX \s+ (.+?) TAIL                                               *)
(* A prefix is modelled by the sequence of positions at which it can end   *)
(* when tried at position p, in the order the backtracking matcher tries   *)
(* them; \s+ is greedy, the group is lazy.                                 *)

\* a literal of the pattern at index i of s, ignoring case
LitAt(s, i, lit) ==
  /\ i + Len(lit) - 1 <= Len(s)
  /\ \A j \in 1..Len(lit) : LowerChar(s[i + j - 1]) = lit[j]

\* r, r-1, ..., e+1: the positions after a greedy \s+ tried at e, r being the
\* end of the whitespace run
DescFrom(r, e) == [k \in 1..(r - e) |-> r - k + 1]

\* the positions reached by  \s+  followed by literal lit, tried at e
AfterSpacesLit(s, e, lit) ==
  LET r == SkipSpaces(s, e)
  IN IF r > e /\ LitAt(s, r, lit) THEN <<r + Len(lit)>> ELSE <<>>

\* (?:about|info(?:rmation)?|details?\s+(?:about|on|of)?|tell\s+me\s+about)
Prefix1(s, p) ==
  LET about == <<"a","b","o","u","t">>
      alt1 == IF LitAt(s, p, about) THEN <<p + 5>> ELSE <<>>
      alt2 == IF LitAt(s, p, <<"i","n","f","o">>)
                THEN (IF LitAt(s, p + 4, <<"r","m","a","t","i","o","n">>)
                        THEN <<p + 11>> ELSE <<>>) \o <<p + 4>>
                ELSE <<>>
      q == IF LitAt(s, p + 6, <<"s">>) THEN p + 7 ELSE p + 6
      r == SkipSpaces(s, q)
      alt3 == IF LitAt(s, p, <<"d","e","t","a","i","l">>) /\ r > q
                THEN (IF LitAt(s, r, about) THEN <<r + 5>> ELSE <<>>)
                     \o (IF LitAt(s, r, <<"o","n">>) THEN <<r + 2>> ELSE <<>>)
                     \o (IF LitAt(s, r, <<"o","f">>) THEN <<r + 2>> ELSE <<>>)
                     \o DescFrom(r, q)
                ELSE <<>>
      me == IF LitAt(s, p, <<"t","e","l","l">>)
              THEN AfterSpacesLit(s, p + 4, <<"m","e">>) ELSE <<>>
      alt4 == IF me # <<>> THEN AfterSpacesLit(s, me[1], about) ELSE <<>>
  IN alt1 \o alt2 \o alt3 \o alt4

\* (?:what\s+is|what\'?s)
Prefix2(s, p) ==
  LET what == LitAt(s, p, <<"w","h","a","t">>)
      alt1 == IF what THEN AfterSpacesLit(s, p + 4, <<"i","s">>) ELSE <<>>
      alt2 == IF what /\ LitAt(s, p + 4, <<"'","s">>) THEN <<p + 6>>
              ELSE IF what /\ LitAt(s, p + 4, <<"s">>) THEN <<p + 5>>
              ELSE <<>>
  IN alt1 \o alt2

\* (?:dosage|dose)\s+(?:of|for)
Prefix3(s, p) ==
  LET e1 == IF LitAt(s, p, <<"d","o","s","a","g","e">>) THEN <<p + 6>> ELSE <<>>
      e2 == IF LitAt(s, p, <<"d","o","s","e">>) THEN <<p + 4>> ELSE <<>>
      e == e1 \o e2
  IN IF e = <<>> THEN <<>>
     ELSE AfterSpacesLit(s, e[1], <<"o","f">>)
          \o AfterSpacesLit(s, e[1], <<"f","o","r">>)

\* (?:side\s+effects?\s+of)
Prefix4(s, p) ==
  LET ef == IF LitAt(s, p, <<"s","i","d","e">>)
              THEN AfterSpacesLit(s, p + 4, <<"e","f","f","e","c","t">>)
              ELSE <<>>
      q == IF ef # <<>> /\ LitAt(s, ef[1], <<"s">>) THEN ef[1] + 1
           ELSE IF ef # <<>> THEN ef[1] ELSE 0
  IN IF ef = <<>> THEN <<>> ELSE AfterSpacesLit(s, q, <<"o","f">>)

\* (?:interactions?\s+(?:of|for|with))
Prefix5(s, p) ==
  LET lit == <<"i","n","t","e","r","a","c","t","i","o","n">>
      q == IF LitAt(s, p + 11, <<"s">>) THEN p + 12 ELSE p + 11
  IN IF LitAt(s, p, lit)
       THEN AfterSpacesLit(s, q, <<"o","f">>)
            \o AfterSpacesLit(s, q, <<"f","o","r">>)
            \o AfterSpacesLit(s, q, <<"w","i","t","h">>)
       ELSE <<>>

\* (?:how\s+to\s+(?:use|take))
Prefix6(s, p) ==
  LET to == IF LitAt(s, p, <<"h","o","w">>)
              THEN AfterSpacesLit(s, p + 3, <<"t","o">>) ELSE <<>>
  IN IF to = <<>> THEN <<>>
     ELSE AfterSpacesLit(s, to[1], <<"u","s","e">>)
          \o AfterSpacesLit(s, to[1], <<"t","a","k","e">>)

\* (?:is|can)
Prefix7(s, p) ==
  (IF LitAt(s, p, <<"i","s">>) THEN <<p + 2>> ELSE <<>>)
  \o (IF LitAt(s, p, <<"c","a","n">>) THEN <<p + 3>> ELSE <<>>)

Prefix(n, s, p) ==
  CASE n = 1 -> Prefix1(s, p)
    [] n = 2 -> Prefix2(s, p)
    [] n = 3 -> Prefix3(s, p)
    [] n = 4 -> Prefix4(s, p)
    [] n = 5 -> Prefix5(s, p)
    [] n = 6 -> Prefix6(s, p)
    [] n = 7 -> Prefix7(s, p)

\* $ without re.MULTILINE: the end of the text, or just before a final newline
AtEnd(s, j) == j = Len(s) + 1 \/ (j = Len(s) /\ s[j] = "\n")

\* (?:\s*\?|\s*$) tried at index g
TailEnd(s, g) ==
  LET r == SkipSpaces(s, g)
  IN \/ r <= Len(s) /\ s[r] = "?"
     \/ \E j \in g..r : AtEnd(s, j)

\* \s+used\s+for tried at index g
TailUsedFor(s, g) ==
  LET u == AfterSpacesLit(s, g, <<"u","s","e","d">>)
  IN u # <<>> /\ AfterSpacesLit(s, u[1], <<"f","o","r">>) # <<>>

\* \s+(?:safe|used|good) tried at index g
TailSafe(s, g) ==
  \/ AfterSpacesLit(s, g, <<"s","a","f","e">>) # <<>>
  \/ AfterSpacesLit(s, g, <<"u","s","e","d">>) # <<>>
  \/ AfterSpacesLit(s, g, <<"g","o","o","d">>) # <<>>

\* what follows the group in pattern n, tried at index g
TailAt(n, s, g) ==
  CASE n = 2 -> TailUsedFor(s, g) \/ TailEnd(s, g)
    [] n = 7 -> TailSafe(s, g)
    [] OTHER -> TailEnd(s, g)

\* the positions at which the group can start, in the order tried: for each
\* prefix end, the greedy \s+ gives up one whitespace character at a time
RECURSIVE GroupStarts(_, _)
GroupStarts(s, ends) ==
  IF ends = <<>> THEN <<>>
  ELSE DescFrom(SkipSpaces(s, Head(ends)), Head(ends))
       \o GroupStarts(s, Tail(ends))

\* the ends (exclusive) of a group (.+?) starting at gs that let pattern n
\* match: at least one character, none a newline, then the tail
GroupEnds(n, s, gs) ==
  {ge \in (gs + 1)..(Len(s) + 1) :
      /\ \A j \in gs..(ge - 1) : s[j] # "\n"
      /\ TailAt(n, s, ge)}

\* the group starts of pattern n tried at p that lead to a match
MatchStarts(n, s, p) ==
  SelectSeq(GroupStarts(s, Prefix(n, s, p)),
            LAMBDA gs : GroupEnds(n, s, gs) # {})

\* re.search(patterns[n], query, re.IGNORECASE) followed by
\* match.group(1).strip(): a one-element sequence holding the candidate, or
\* the empty sequence when the pattern does not match
pattern_candidate(n, query) ==
  LET P == {p \in 1..(Len(query) + 1) : MatchStarts(n, query, p) # <<>>}
  IN IF P = {} THEN <<>>
     ELSE LET p == CHOOSE x \in P : \A y \in P : x <= y
              gs == Head(MatchStarts(n, query, p))
              E == GroupEnds(n, query, gs)
              ge == CHOOSE x \in E : \A y \in E : x <= y
          IN <<Strip(SubSeq(query, gs, ge - 1))>>

NumPatterns == 7

RECURSIVE pattern_candidates(_, _)
pattern_candidates(n, query) ==
  IF n > NumPatterns THEN <<>>
  ELSE pattern_candidate(n, query) \o pattern_candidates(n + 1, query)

\* the spans of the "multi-word combinations" loops, in loop order:
\* words[i:j] for i in range(len(words)), j in range(i+1, min(i+4, len+1))
RECURSIVE combos(_, _, _)
combos(words, i, j) ==
  IF i >= Len(words) THEN <<>>
  ELSE IF j >= Min(i + 4, Len(words) + 1) THEN combos(words, i + 1, i + 2)
  ELSE <<JoinSlice(words, i, j)>> \o combos(words, i, j + 1)

\* candidates with the single-word loop run ahead of the pattern loop
candidates_words_first(query) ==
  LET words == Split(query)
  IN words \o pattern_candidates(1, query) \o combos(words, 0, 1)

\* every text _extract_drug_from_query hands to _find_drug, in call order
candidates(query) ==
  LET words == Split(query)
  IN pattern_candidates(1, query) \o words \o combos(words, 0, 1)

\* the first result of _find_drug over cands that is not None
RECURSIVE first_drug(_)
first_drug(cands) ==
  IF cands = <<>> THEN NoDrug
  ELSE LET drug == find_drug(Head(cands))
       IN IF drug # NoDrug THEN drug ELSE first_drug(Tail(cands))

\* RAGService._extract_drug_from_query
extract_drug_from_query(query) == first_drug(candidates(query))


----------------------------------------------------------------------------
(* RAGService.query and the texts it returns.  A returned text is a record: *)
(* kind names the fixed template, drug the record rendered into it (NoDrug  *)
(* for none), listed the records whose display names it enumerates, and     *)
(* text the caller-dependent text embedded in it (the echoed question, or   *)
(* the cleaned model output, which is the whole text of kind "llm_answer"). *)

NoResponse == [kind |-> "none", drug |-> NoDrug, listed |-> <<>>, text |-> <<>>]

\* positions of all records, in self.drug_db.values() order
all_drugs == [i \in 1..Len(DRUG_DATABASE) |-> i]

\* RAGService._format_patient_response
format_patient_response(drug) ==
  [kind |-> "patient_record", drug |-> drug, listed |-> <<>>,
   text |-> DRUG_DATABASE[drug].name]

\* RAGService._format_student_response
format_student_response(drug) ==
  [kind |-> "student_record", drug |-> drug, listed |-> <<>>,
   text |-> DRUG_DATABASE[drug].name]

\* _format_drug_response giving the patient text to "patient" alone
format_drug_response_lenient(drug, user_type) ==
  IF user_type # "patient" THEN format_student_response(drug)
  ELSE format_patient_response(drug)

\* RAGService._format_drug_response
format_drug_response(drug, user_type) ==
  IF user_type = "student" THEN format_student_response(drug)
  ELSE format_patient_response(drug)

\* RAGService.get_emergency_drugs_list, as positions of the records listed
get_emergency_drugs_list ==
  SelectSeq(all_drugs, LAMBDA i : DRUG_DATABASE[i].emergency_use)

\* _general_help_response enumerating only the emergency-use records
general_help_response_emergency_only(question) ==
  [kind |-> "general_help", drug |-> NoDrug,
   listed |-> get_emergency_drugs_list, text |-> question]

\* RAGService._general_help_response
general_help_response(question) ==
  [kind |-> "general_help", drug |-> NoDrug, listed |-> all_drugs,
   text |-> question]

\* any(kw in lower_q for kw in kws)
any_kw_in(kws, lower_q) == \E k \in 1..Len(kws) : Contains(lower_q, kws[k])

EmergencyListKeywords ==
  <<<<"e","m","e","r","g","e","n","c","y"," ","d","r","u","g">>, <<"e","m","e","r","g","e","n","c","y"," ","m","e","d","i","c","a","t","i","o","n">>, <<"e","m","e","r","g","e","n","c","y"," ","l","i","s","t">>>>

HospitalKeywords ==
  <<<<"n","e","a","r","b","y"," ","h","o","s","p","i","t","a","l">>, <<"f","i","n","d"," ","h","o","s","p","i","t","a","l">>, <<"h","o","s","p","i","t","a","l"," ","n","e","a","r">>,
    <<"n","e","a","r","e","s","t"," ","h","o","s","p","i","t","a","l">>>>

GreetingKeywords ==
  <<<<"h","e","l","l","o">>, <<"h","i"," ">>, <<"h","e","y">>, <<"g","o","o","d"," ","m","o","r","n","i","n","g">>, <<"g","o","o","d"," ","a","f","t","e","r","n","o","o","n">>,
    <<"g","o","o","d"," ","e","v","e","n","i","n","g">>>>

CatalogKeywords ==
  <<<<"d","r","u","g"," ","l","i","s","t">>, <<"a","v","a","i","l","a","b","l","e"," ","d","r","u","g","s">>, <<"w","h","a","t"," ","d","r","u","g","s">>, <<"a","l","l"," ","m","e","d","i","c","i","n","e","s">>,
    <<"a","l","l"," ","d","r","u","g","s">>, <<"m","e","d","i","c","i","n","e"," ","l","i","s","t">>>>

\* STEP 2 of RAGService.query: the text of the first keyword intent that
\* matches, NoResponse when none does
intent_response(question) ==
  LET lower_q == Lower(question)
  IN IF any_kw_in(EmergencyListKeywords, lower_q)
       THEN [kind |-> "emergency_list", drug |-> NoDrug,
             listed |-> get_emergency_drugs_list, text |-> <<>>]
     ELSE IF any_kw_in(HospitalKeywords, lower_q)
       THEN [kind |-> "hospital_guidance", drug |-> NoDrug,
             listed |-> <<>>, text |-> <<>>]
     ELSE IF any_kw_in(GreetingKeywords, lower_q)
       THEN [kind |-> "welcome", drug |-> NoDrug, listed |-> <<>>,
             text |-> <<>>]
     ELSE IF any_kw_in(CatalogKeywords, lower_q)
       THEN [kind |-> "catalog", drug |-> NoDrug, listed |-> all_drugs,
             text |-> <<>>]
     ELSE NoResponse

\* the prompt-template delimiters
IM_START == <<"<","|","i","m","_","s","t","a","r","t","|",">">>
IM_END == <<"<","|","i","m","_","e","n","d","|",">">>
target_str == <<"<","|","i","m","_","s","t","a","r","t","|",">","a","s","s","i","s","t","a","n","t","\n">>

\* index of the first occurrence of t in s at or after i, 0 if none
\* (str.find)
FindFrom(s, i, t) ==
  LET I == {k \in i..(Len(s) - Len(t) + 1) : OccursAt(s, k, t)}
  IN IF I = {} THEN 0 ELSE CHOOSE k \in I : \A h \in I : k <= h

\* s.split(t)[-1]: what follows the last of the occurrences of t found
\* scanning left to right without overlap
RECURSIVE SplitLast(_, _)
SplitLast(s, t) ==
  LET k == FindFrom(s, 1, t)
  IN IF k = 0 THEN s
     ELSE SplitLast(SubSeq(s, k + Len(t), Len(s)), t)

\* s.replace(t, ""): one left-to-right pass removing non-overlapping
\* occurrences of t
RECURSIVE Remove(_, _)
Remove(s, t) ==
  LET k == FindFrom(s, 1, t)
  IN IF k = 0 THEN s
     ELSE SubSeq(s, 1, k - 1) \o Remove(SubSeq(s, k + Len(t), Len(s)), t)

\* "Clean up response" in RAGService.query
clean_response(raw) ==
  LET r1 == IF Contains(raw, target_str)
              THEN Strip(SplitLast(raw, target_str)) ELSE raw
  IN Strip(Remove(r1, IM_END))

\* llm_response without the test for empty or marker-bearing output
llm_response_unchecked(question, raw) ==
  [kind |-> "llm_answer", drug |-> NoDrug, listed |-> <<>>,
   text |-> clean_response(raw)]

\* the value returned by the try block of STEP 3 for raw model output raw
llm_response(question, raw) ==
  LET response == clean_response(raw)
  IN IF response = <<>> \/ Contains(response, IM_START)
       THEN general_help_response(question)
       ELSE [kind |-> "llm_answer", drug |-> NoDrug, listed |-> <<>>,
             text |-> response]


----------------------------------------------------------------------------
(* The webhook's _process_user_query                                       *)

WebhookGreetings ==
  {<<"h","i">>, <<"h","e","l","l","o">>, <<"h","e","y">>, <<"s","t","a","r","t">>, <<"m","e","n","u">>, <<"h","e","l","p">>}

WebhookEmergency == {<<"e","m","e","r","g","e","n","c","y">>, <<"s","o","s">>, <<"1","0","8">>}

\* the checks _process_user_query makes before it consults the RAG service:
\* the canned text returned, NoResponse when none of them matches
webhook_intent(query) ==
  LET query_lower == Lower(Strip(query))
  IN IF query_lower \in WebhookGreetings
       THEN [kind |-> "wa_menu", drug |-> NoDrug, listed |-> <<>>,
             text |-> <<>>]
     ELSE IF query_lower \in WebhookEmergency
       THEN [kind |-> "wa_emergency", drug |-> NoDrug, listed |-> <<>>,
             text |-> <<>>]
     ELSE IF Contains(query_lower, <<"a","y","u","s","h","m","a","n">>)
       THEN [kind |-> "wa_ayushman", drug |-> NoDrug, listed |-> <<>>,
             text |-> <<>>]
     ELSE NoResponse

\* the "Default helpful response" of _process_user_query
webhook_default(query) ==
  [kind |-> "wa_default", drug |-> NoDrug, listed |-> <<>>, text |-> query]

\* Python truthiness of a returned text: every template is non-empty text, so
\* only a model answer can be the empty string
IsEmptyText(resp) ==
  resp.kind = "none" \/ (resp.kind = "llm_answer" /\ resp.text = <<>>)


----------------------------------------------------------------------------
(* The characters of a returned text.  The fixed parts of a template are   *)
(* cut down to its opening words; the parts filled in from a record, the   *)
(* question or the model are kept whole.                                   *)

\* sep.join of the display names of the records at the positions in listed
RECURSIVE JoinNames(_, _)
JoinNames(listed, sep) ==
  IF listed = <<>> THEN <<>>
  ELSE IF Len(listed) = 1 THEN DRUG_DATABASE[listed[1]].name
  ELSE DRUG_DATABASE[listed[1]].name \o sep \o JoinNames(Tail(listed), sep)

\* the patient template with the generic name in place of the display name
patient_text_generic(drug) ==
  <<"#","#"," ">> \o DRUG_DATABASE[drug].generic
    \o <<"\n","*","*","C","a","t","e","g","o","r","y",":","*","*">>

\* the f-string of _format_patient_response
patient_text(drug) ==
  <<"#","#"," ">> \o DRUG_DATABASE[drug].name
    \o <<"\n","*","*","C","a","t","e","g","o","r","y",":","*","*">>

\* the f-string of _format_student_response
student_text(drug) ==
  <<"#","#"," ">> \o DRUG_DATABASE[drug].name
    \o <<"\n","*","*","G","e","n","e","r","i","c",":","*","*"," ">> \o DRUG_DATABASE[drug].generic
    \o <<" ","|"," ","*","*","C","a","t","e","g","o","r","y",":","*","*">>

\* the characters of the text r returned by RAGService.query or
\* _format_drug_response
text_of(r) ==
  CASE r.kind = "patient_record" -> patient_text(r.drug)
    [] r.kind = "student_record" -> student_text(r.drug)
    [] r.kind = "emergency_list" ->
         <<"#","#"," ","E","m","e","r","g","e","n","c","y"," ","D","r","u","g","s"," ","L","i","s","t","\n","\n","#","#","#"," ">>
           \o JoinNames(r.listed, <<"\n","#","#","#"," ">>)
    [] r.kind = "hospital_guidance" -> <<"#","#"," ","F","i","n","d","i","n","g"," ","N","e","a","r","b","y"," ","H","o","s","p","i","t","a","l","s">>
    [] r.kind = "welcome" -> <<"H","e","l","l","o","!"," ","W","e","l","c","o","m","e"," ","t","o"," ","*","*","L","I","F","E","X","I","A","*","*">>
    [] r.kind = "catalog" ->
         <<"#","#"," ","A","v","a","i","l","a","b","l","e"," ","D","r","u","g"," ","I","n","f","o","r","m","a","t","i","o","n","\n","-"," ">>
           \o JoinNames(r.listed, <<"\n","-"," ">>)
    [] r.kind = "general_help" ->
         <<"I"," ","a","p","p","r","e","c","i","a","t","e"," ","y","o","u","r"," ","q","u","e","s","t","i","o","n"," ","a","b","o","u","t",":"," ","*","\"">>
           \o r.text \o <<"\"","*","\n","\n">> \o JoinNames(r.listed, <<","," ">>)
    [] r.kind = "wa_menu" -> <<"W","e","l","c","o","m","e"," ","t","o"," ","*","L","I","F","E","X","I","A","*">>
    [] r.kind = "wa_emergency" -> <<"*","E","M","E","R","G","E","N","C","Y"," ","C","O","N","T","A","C","T","S","*">>
    [] r.kind = "wa_ayushman" -> <<"*","A","y","u","s","h","m","a","n"," ","B","h","a","r","a","t"," ","C","a","r","d"," ","H","o","s","p","i","t","a","l","s"," ","(","A","h","m","e","d","a","b","a","d",")","*">>
    [] r.kind = "wa_default" ->
         <<"T","h","a","n","k"," ","y","o","u"," ","f","o","r"," ","a","s","k","i","n","g"," ","a","b","o","u","t",":"," ","*">>
           \o r.text \o <<"*">>
    [] r.kind = "wa_apology" -> <<"I"," ","a","p","o","l","o","g","i","z","e",","," ","b","u","t"," ","I","'","m"," ","h","a","v","i","n","g"," ","t","r","o","u","b","l","e"," ","p","r","o","c","e","s","s","i","n","g"," ","y","o","u","r"," ","r","e","q","u","e","s","t",".">>
    [] OTHER -> r.text

----------------------------------------------------------------------------
(* Bounds and input spaces                                                 *)

\* longest question, in vocabulary phrases, put to the resolver alone
MaxResolverTokens == 2

\* longest question, in vocabulary phrases, put to the engine
MaxQuestionTokens == 1

\* longest raw model output, in fragments
MaxFrags == 3

\* casing variants of a name upper-case any subset of its first MaxCasePos
\* characters, or all of them
MaxCasePos == 2

\* conversations created in one run of the store, and messages held by the
\* store at one time
MaxConversations == 2
MaxMessages == 2

Users == {"u1", "u2"}
Roles == {<<"u","s","e","r">>}
Contents == {<<"h","e","l","l","o">>, <<"h","i"," ","t","h","e","r","e">>}

\* the hours the clock runs
MaxClock == 26

\* calls of _record_message in one run
MaxRecorded == 11

\* messages delivered to the webhook in one run
MaxDeliveries == 2

\* tokens made by /login and /register in one run
MaxTokens == 3

\* requests handled by the chat endpoints in one run
MaxRequests == 2

\* the reading of datetime.utcnow() a call gets; no operation of the store
\* reads a stored timestamp back
Timestamps == {"t1"}

\* the session ids callers name
NamedSessions == {<<"s","1">>, <<"s","2">>}

\* " ".join(tokens)
RECURSIVE JoinTokens(_)
JoinTokens(tokens) ==
  IF tokens = <<>> THEN <<>>
  ELSE IF Len(tokens) = 1 THEN tokens[1]
  ELSE tokens[1] \o <<" ">> \o JoinTokens(Tail(tokens))

\* the texts made of at most n phrases of vocab joined by single spaces
Sentences(vocab, n) ==
  {JoinTokens([k \in DOMAIN f |-> vocab[f[k]]]) :
     f \in UNION {[1..m -> 1..Len(vocab)] : m \in 0..n}}

\* concatenation of the texts of a sequence of texts
RECURSIVE Concat(_)
Concat(parts) ==
  IF parts = <<>> THEN <<>> ELSE Head(parts) \o Concat(Tail(parts))

\* the texts made of at most n fragments of frags put end to end
Concats(frags, n) ==
  {Concat([k \in DOMAIN f |-> frags[f[k]]]) :
     f \in UNION {[1..m -> 1..Len(frags)] : m \in 0..n}}

\* name with the characters at the positions in U in upper case
UpperAt(name, U) ==
  [i \in 1..Len(name) |-> IF i \in U THEN UpperChar(name[i]) ELSE name[i]]

\* the casing variants of name that are tried
CaseVariants(name) ==
  {UpperAt(name, U) : U \in SUBSET (1..Min(MaxCasePos, Len(name)))}
  \cup {UpperAt(name, 1..Len(name))}

\* every canonical key and every alias
Names ==
  {DRUG_DATABASE[i].key : i \in 1..Len(DRUG_DATABASE)}
  \cup {DRUG_ALIASES[a].alias : a \in 1..Len(DRUG_ALIASES)}

ResolverVocab ==
  <<<<"W","h","a","t"," ","i","s">>,
    <<"t","h","e"," ","c","a","p","i","t","a","l"," ","o","f"," ","F","r","a","n","c","e","?">>,
    <<"p","a","r","a","c","e","t","a","m","o","l">>,
    <<"i","n","f","o"," ","a","s","p","i","r","i","n">>,
    <<"a","s","p","i","r","i","n">>,
    <<"t","e","l","l"," ","m","e"," ","a","b","o","u","t">>,
    <<"i","s"," ","d","o","l","o"," ","6","5","0"," ","s","a","f","e">>,
    <<>>>>

\* the texts put to search_drug and _extract_drug_from_query
ResolverTexts ==
  Sentences(ResolverVocab, MaxResolverTokens)
  \cup UNION {CaseVariants(name) : name \in Names}

EngineVocab ==
  <<<<"h","i">>,
    <<"h","e","l","l","o"," ","t","h","e","r","e">>,
    <<"x","y","z">>,
    <<"a","y","u","s","h","m","a","n"," ","p","a","r","a","c","e","t","a","m","o","l">>,
    <<"e","m","e","r","g","e","n","c","y">>,
    <<"e","m","e","r","g","e","n","c","y"," ","d","r","u","g"," ","l","i","s","t">>,
    <<"n","e","a","r","e","s","t"," ","h","o","s","p","i","t","a","l">>,
    <<"d","r","u","g"," ","l","i","s","t">>,
    <<"d","o","s","a","g","e"," ","o","f"," ","E","p","i","n","e","p","h","r","i","n","e">>,
    <<"h","e","l","l","o"," ","P","a","r","a","c","e","t","a","m","o","l">>>>

\* the questions put to RAGService.query and _process_user_query
Questions == Sentences(EngineVocab, MaxQuestionTokens)

UserTypes == {"patient", "student"}

\* questions that no drug and no intent matches
GenQuestions == {<<>>, <<"h","i">>, <<"x","y","z">>}

LlmFragments ==
  <<<<"o","k">>, <<"<","|","i","m","_","s","t","a","r","t","|",">","a","s","s","i","s","t","a","n","t","\n">>, <<"<","|","i","m","_","e","n","d","|",">">>, <<"<","|","i","m","_">>,
    <<"e","n","d","|",">">>>>

\* the raw model outputs of at most n fragments
Outputs(n) == Concats(LlmFragments, n)

----------------------------------------------------------------------------
(* State                                                                   *)

VARIABLES
  llm,           \* RAGService.llm: "none" or "configured"
  vector_store,  \* RAGService.vector_store: "none" or "configured"
  pc,            \* "idle", "called" (a call has arrived), "done" (it returned)
  op,            \* the operation called
  question,      \* its text argument
  user_type,     \* its audience argument
  rag_service,   \* _process_user_query's rag_service argument
  drug,          \* the resolver's result in the call (local variable drug)
  backend,       \* what the backends did in the call
  prompt,        \* the prompt handed to the model in the call
  response,      \* the text returned
  raised         \* TRUE when the call ended by raising

engine_vars ==
  <<llm, vector_store, pc, op, question, user_type, rag_service, drug,
    backend, prompt, response, raised>>


----------------------------------------------------------------------------
(* The conversation store (chat_store.py).  A conversation dict is shared   *)
(* by reference between its owner's list and the session index; the model   *)
(* keeps the dicts in conversations, keyed by their id, and both structures *)
(* refer to them by id.                                                     *)

\* the result None of get_conversation
None == 0

\* a session_id argument that is falsy: None or the empty string
NoSession == <<>>

VARIABLES
  conversation_id_counter,  \* the next value of _conversation_id_counter
  conversations,            \* id -> the conversation dict with that id
  conversations_by_user,    \* _conversations_by_user: user -> list of ids
  session_index,            \* _session_index: session_id -> (user, id)
  appended,                 \* history: session_id -> the messages that
                            \* append_message calls naming it have appended
  deleted_sessions,         \* history: session ids whose conversation was
                            \* deleted
  returned                  \* history: session_id -> the ids of the
                            \* conversations get_or_create_conversation
                            \* has returned to calls naming it

store_vars ==
  <<conversation_id_counter, conversations, conversations_by_user,
    session_index, appended, deleted_sessions, returned>>

VARIABLES
  threads                   \* request thread -> the call of the store it is
                            \* in: its arguments, the line it is at and its
                            \* local variable conversation

VARIABLES
  app_config,               \* current_app.config: the RAG_SERVICE object,
                            \* and whether backend.services.chat_store can
                            \* be imported in this deployment
  flask_session,            \* the Flask session of the client
  http                      \* the last request handled by a chat endpoint
                            \* and its result; requests counts them

channel_vars == <<app_config, flask_session, http>>

caller_vars == <<threads, channel_vars>>

VARIABLES
  rag_service_global,       \* the module global _rag_service of
                            \* rag_service.py: None or a RAGService object,
                            \* named by the order of its construction
  instances,                \* the number of RAGService objects constructed
  getters                   \* caller of get_rag_service -> the line it is
                            \* at, the object it built and what it returned

singleton_vars == <<rag_service_global, instances, getters>>

VARIABLES
  clock,                    \* the reading of datetime.now(), in hours
  user_sessions,            \* WhatsAppService.user_sessions: number -> the
                            \* dict stored by record_user_message
  recorded_at,              \* history: number -> the time of the last call
                            \* of record_user_message for it
  window_reply              \* the last call of can_send_message or
                            \* get_session_status and what it returned

window_vars == <<clock, user_sessions, recorded_at, window_reply>>

VARIABLES
  webhook_services,         \* current_app.config of the webhook: the
                            \* RAG_SERVICE and whether there is a
                            \* WHATSAPP_SERVICE
  user_conversations,       \* _user_conversations of webhook_routes.py:
                            \* number -> list of recorded messages
  recorded_messages,        \* history: number -> every message
                            \* _record_message was called with for it
  deliveries                \* history: the messages handled by
                            \* handle_incoming_message, each with what the
                            \* handler saw and what it replied

webhook_vars ==
  <<webhook_services, user_conversations, recorded_messages, deliveries>>

VARIABLES
  users_db,                 \* users_db of auth_routes.py: email -> record
  tokens_db,                \* tokens_db of auth_routes.py: token -> record
  auth_reply                \* the last request to /login or /register and
                            \* its response

auth_vars == <<users_db, tokens_db, auth_reply>>

aux_vars == <<singleton_vars, window_vars, webhook_vars, auth_vars>>

InitStore ==
  /\ conversation_id_counter = 1
  /\ conversations = [c \in {} |-> <<>>]
  /\ conversations_by_user = [u \in Users |-> <<>>]
  /\ session_index = [s \in {} |-> <<>>]
  /\ appended = [s \in NamedSessions |-> <<>>]
  /\ deleted_sessions = {}
  /\ returned = [s \in NamedSessions |-> {}]

\* get_conversation(session_id): the id of the conversation, None if absent
get_conversation(session_id) ==
  IF session_id \in DOMAIN session_index
    THEN session_index[session_id][2] ELSE None

\* list_history(user_email), as the ids of the conversations listed
list_history(user_email) == conversations_by_user[user_email]

\* the characters of uuid4().hex
HexDigits ==
  <<"1","2","3","4","5","6","7","8","9","a","b","c","d","e","f","0">>

\* _new_session_id(): a uuid4 token, which no caller names and no earlier
\* call returned; the token made for the conversation with id counter
generated_session_id(counter) ==
  <<"s","e","s","s","i","o","n","_">> \o <<HexDigits[counter]>>

\* the token made for the conversation with the next id
new_session_id == generated_session_id(conversation_id_counter)

\* list.insert(0, id) replacing the head of the list
insert_over_first(list, id) ==
  IF list = <<>> THEN <<id>> ELSE <<id>> \o Tail(list)

\* _conversations_by_user[user_email].insert(0, conversation)
insert_first(list, id) == <<id>> \o list

\* _session_index[sid] = (user_email, conversation)
index_with(index, sid, user_email, id) ==
  [s \in DOMAIN index \cup {sid} |->
     IF s = sid THEN <<user_email, id>> ELSE index[s]]

\* _conversations_by_user[user_email] of the defaultdict
list_of(by_user, user_email) ==
  IF user_email \in DOMAIN by_user THEN by_user[user_email] ELSE <<>>

\* the store st after get_or_create_conversation(user_email, session_id)
\* found no conversation and created one under session id sid at time
\* created_at
create_conversation_in(st, user_email, sid, created_at) ==
  LET id == st.counter
      conversation == [id |-> id, session_id |-> sid,
                       created_at |-> created_at, messages |-> <<>>]
  IN [id |-> id,
      counter |-> st.counter + 1,
      conversations |-> [c \in DOMAIN st.conversations \cup {id} |->
                           IF c = id THEN conversation
                           ELSE st.conversations[c]],
      by_user |-> [u \in DOMAIN st.by_user \cup {user_email} |->
                     IF u = user_email
                       THEN insert_first(list_of(st.by_user, u), id)
                       ELSE st.by_user[u]],
      index |-> index_with(st.index, sid, user_email, id)]

\* the store as it is, with conversation id the one returned
found_conversation(id) ==
  [id |-> id,
   counter |-> conversation_id_counter,
   conversations |-> conversations,
   by_user |-> conversations_by_user,
   index |-> session_index]

\* the store as it is, before a call
store_now == found_conversation(None)

\* the store after get_or_create_conversation(user_email, session_id) found
\* no conversation and created one under session id sid at time created_at
create_conversation(user_email, sid, created_at) ==
  create_conversation_in(store_now, user_email, sid, created_at)

\* get_or_create_conversation(user_email, session_id) on the store st, the
\* clock reading created_at
get_or_create_in(st, user_email, session_id, created_at) ==
  IF session_id # NoSession /\ session_id \in DOMAIN st.index
    THEN [st EXCEPT !.id = st.index[session_id][2]]
  ELSE create_conversation_in(st, user_email,
                              IF session_id # NoSession THEN session_id
                              ELSE generated_session_id(st.counter),
                              created_at)

\* get_or_create_conversation without the lookup in the session index
get_or_create_always_create(user_email, session_id) ==
  {create_conversation(user_email,
                       IF session_id # NoSession THEN session_id
                       ELSE new_session_id, created_at) :
     created_at \in Timestamps}

\* the outcomes of get_or_create_conversation(user_email, session_id), one
\* for each reading of the clock when a conversation is created
get_or_create_conversation(user_email, session_id) ==
  {get_or_create_in(store_now, user_email, session_id, created_at) :
     created_at \in Timestamps}

\* the history of returned conversations after a call naming session_id
\* was handed the conversation of store st
returned_after(session_id, st) ==
  IF session_id = NoSession THEN returned
  ELSE [returned EXCEPT ![session_id] = @ \cup {st.id}]

\* a call of get_or_create_conversation(user_email, session_id)
GetOrCreate(user_email, session_id) ==
  \E st \in get_or_create_conversation(user_email, session_id) :
    /\ st.counter <= MaxConversations + 1
    /\ conversation_id_counter' = st.counter
    /\ conversations' = st.conversations
    /\ conversations_by_user' = st.by_user
    /\ session_index' = st.index
    /\ returned' = returned_after(session_id, st)
    /\ UNCHANGED <<appended, deleted_sessions>>
    /\ UNCHANGED engine_vars
    /\ UNCHANGED caller_vars
    /\ UNCHANGED aux_vars

\* a call of get_or_create_conversation
GetOrCreateConversation ==
  \E u \in Users, s \in NamedSessions \cup {NoSession} : GetOrCreate(u, s)

\* the number of messages held by the conversations with the ids in ids
RECURSIVE stored_messages(_, _)
stored_messages(convs, ids) ==
  IF ids = {} THEN 0
  ELSE LET c == CHOOSE c \in ids : TRUE
       IN Len(convs[c].messages) + stored_messages(convs, ids \ {c})

\* append_to putting the message at the head of the list
prepend_to(st, message) ==
  [st.conversations EXCEPT ![st.id].messages = <<message>> \o @]

\* conversation["messages"].append(message) on the store st
append_to(st, message) ==
  [st.conversations EXCEPT ![st.id].messages = Append(@, message)]

\* append_message(user_email, role, content, session_id) on the store st,
\* the clock reading now
append_message_in(st, user_email, role, content, session_id, now) ==
  LET got == get_or_create_in(st, user_email, session_id, now)
  IN [got EXCEPT !.conversations =
        append_to(got, [role |-> role, content |-> content,
                        timestamp |-> now])]

\* a call of append_message(user_email, role, content, session_id)
append_message(user_email, role, content, session_id) ==
  \E timestamp \in Timestamps :
    \E st \in get_or_create_conversation(user_email, session_id) :
      LET message == [role |-> role, content |-> content,
                      timestamp |-> timestamp]
      IN /\ st.counter <= MaxConversations + 1
         /\ stored_messages(st.conversations, DOMAIN st.conversations)
              < MaxMessages
         /\ conversation_id_counter' = st.counter
         /\ conversations' = append_to(st, message)
         /\ conversations_by_user' = st.by_user
         /\ session_index' = st.index
         /\ appended' = IF session_id = NoSession THEN appended
                        ELSE [appended EXCEPT
                                ![session_id] = Append(@, message)]
         /\ returned' = returned_after(session_id, st)
         /\ UNCHANGED deleted_sessions
         /\ UNCHANGED engine_vars
         /\ UNCHANGED caller_vars
         /\ UNCHANGED aux_vars

\* a call of append_message
AppendMessage ==
  \E u \in Users, role \in Roles, content \in Contents,
     s \in NamedSessions \cup {NoSession} :
    append_message(u, role, content, s)

\* list.pop(index) taking the last element whatever the index
pop_last(list, index) == SubSeq(list, 1, Len(list) - 1)

\* list.pop(index)
Pop(list, index) ==
  SubSeq(list, 1, index - 1) \o SubSeq(list, index + 1, Len(list))

\* delete_conversation leaving the session index as it is
index_kept(sid) == session_index

\* _session_index.pop(sid, None)
index_without(sid) ==
  [s \in DOMAIN session_index \ {sid} |-> session_index[s]]

\* the conversation ids the requests name: those made and one never made
ConversationIds == 1..(MaxConversations + 1)

\* the (owner, index) pairs at which the loops of delete_conversation find
\* conversation_id
found_at(conversation_id) ==
  {p \in Users \X (1..MaxConversations) :
     /\ p[2] <= Len(conversations_by_user[p[1]])
     /\ conversations_by_user[p[1]][p[2]] = conversation_id}

\* delete_conversation(conversation_id): what it returns and the store it
\* leaves.  The conversation is popped from the list that holds it and its
\* session id from the index and True is returned, or no list holds the id
\* and False is returned
delete_conversation(conversation_id) ==
  IF found_at(conversation_id) # {}
    THEN LET p == CHOOSE p \in found_at(conversation_id) : TRUE
             sid == conversations[conversation_id].session_id
         IN [deleted |-> TRUE,
             session_id |-> {sid},
             by_user |-> [conversations_by_user EXCEPT
                            ![p[1]] = Pop(@, p[2])],
             index |-> index_without(sid),
             conversations |->
               [c \in DOMAIN conversations \ {conversation_id} |->
                  conversations[c]]]
    ELSE [deleted |-> FALSE,
          session_id |-> {},
          by_user |-> conversations_by_user,
          index |-> session_index,
          conversations |-> conversations]

\* a request DELETE /api/history/delete/<conversation_id>: 200 when
\* delete_conversation returned True, 404 when it returned False
DeleteConversation ==
  \E conversation_id \in ConversationIds :
    LET done == delete_conversation(conversation_id)
    IN /\ conversations_by_user' = done.by_user
       /\ session_index' = done.index
       /\ conversations' = done.conversations
       /\ deleted_sessions' = deleted_sessions \cup done.session_id
       /\ UNCHANGED <<conversation_id_counter, appended, returned>>
       /\ UNCHANGED engine_vars
       /\ UNCHANGED caller_vars
       /\ UNCHANGED aux_vars

\* request.files.get('image'): no file, a file without a name, or a file
\* with the name the client gave it
NoFile == <<None>>
UploadedFiles == {NoFile, <<>>, <<"a"," ","b",".","p","n","g">>}

\* werkzeug's secure_filename on the names uploaded: spaces become
\* underscores
secure_filename(filename) ==
  [i \in 1..Len(filename) |-> IF filename[i] = " " THEN "_" ELSE filename[i]]

\* f"Uploaded file: {filename}"
uploaded_text(filename) ==
  <<"U","p","l","o","a","d","e","d"," ","f","i","l","e",":"," ">> \o filename

\* the reply stored for every upload
upload_ai_response ==
  <<"T","h","a","n","k","s","!"," ","Y","o","u","r"," ","f","i","l","e"," ",
    "w","a","s"," ","u","p","l","o","a","d","e","d"," ","s","u","c","c","e",
    "s","s","f","u","l","l","y","."," ","O","C","R","/","a","n","a","l","y",
    "s","i","s"," ","p","i","p","e","l","i","n","e"," ","i","s"," ","n","o",
    "t"," ","c","o","n","f","i","g","u","r","e","d"," ","y","e","t",".">>

AssistantSender == <<"a","s","s","i","s","t","a","n","t">>
UserSender == <<"u","s","e","r">>

\* the history of appended messages after messages were appended under the
\* session ids sids, in order
RECURSIVE appended_after(_, _, _)
appended_after(hist, sids, messages) ==
  IF sids = <<>> THEN hist
  ELSE appended_after(
         IF sids[1] \in DOMAIN hist
           THEN [hist EXCEPT ![sids[1]] = Append(@, messages[1])]
           ELSE hist,
         Tail(sids), Tail(messages))

\* upload_image() with form fields user_email and session_id, the clock
\* reading now: the status of the response, the conversation the two
\* messages went to and the store after the request
upload_image(file, user_email, session_id, now) ==
  IF file = NoFile \/ file = <<>>
    THEN [status |-> 400, id |-> None, session_id |-> NoSession,
          store |-> store_now]
  ELSE LET filename == secure_filename(file)
           conversation ==
             append_message_in(store_now, user_email, UserSender,
                               uploaded_text(filename), session_id, now)
           sid == conversation.conversations[conversation.id].session_id
           second ==
             append_message_in(conversation, user_email, AssistantSender,
                               upload_ai_response, sid, now)
       IN [status |-> 200, id |-> conversation.id, session_id |-> sid,
           store |-> second]

\* a request POST /api/upload/image
UploadImage ==
  \E file \in UploadedFiles, u \in Users,
     s \in NamedSessions \cup {NoSession}, now \in Timestamps :
    LET done == upload_image(file, u, s, now)
        st == done.store
        messages == IF done.status = 200
                      THEN st.conversations[done.id].messages ELSE <<>>
    IN /\ st.counter <= MaxConversations + 1
       /\ stored_messages(st.conversations, DOMAIN st.conversations)
            <= MaxMessages
       /\ conversation_id_counter' = st.counter
       /\ conversations' = st.conversations
       /\ conversations_by_user' = st.by_user
       /\ session_index' = st.index
       /\ appended' =
            IF done.status = 200
              THEN appended_after(appended,
                                  <<done.session_id, done.session_id>>,
                                  SubSeq(messages, Len(messages) - 1,
                                         Len(messages)))
            ELSE appended
       /\ returned' =
            [s2 \in DOMAIN returned |->
               IF done.status = 200 /\ s2 = done.session_id
                 THEN returned[s2] \cup {done.id, st.id}
               ELSE returned[s2]]
       /\ UNCHANGED deleted_sessions
       /\ UNCHANGED engine_vars
       /\ UNCHANGED caller_vars
       /\ UNCHANGED aux_vars

----------------------------------------------------------------------------
(* Concurrent calls of the store.  The application serves each request in  *)
(* a thread of its own and the store takes no lock, so a thread can be     *)
(* suspended between any two statements of get_or_create_conversation and  *)
(* append_message; one statement on a dict or a list is atomic.  Each      *)
(* thread makes one call of the store and ends.                            *)

Threads == {"w1", "w2", "w3"}

\* the user whose request thread t serves: two requests of one user and one
\* of another
user_of(t) == IF t = "w3" THEN "u2" ELSE "u1"

\* the text of the message of the request thread t serves
content_of(t) ==
  IF t = "w1" THEN <<"h","e","l","l","o">>
  ELSE IF t = "w2" THEN <<"h","i"," ","t","h","e","r","e">>
  ELSE <<"h","e","y">>

\* a thread that has not entered its call of the store
IdleThread ==
  [pc |-> "idle", op |-> "none", user_email |-> "u1", role |-> <<>>,
   content |-> <<>>, session_id |-> NoSession, conversation |-> None]

\* a thread whose call has returned
DoneThread == [IdleThread EXCEPT !.pc = "done"]

InitThreads == threads = [t \in Threads |-> IdleThread]

\* thread t enters operation o of the store
Enter(t, o, R, Cn) ==
  /\ threads[t].pc = "idle"
  /\ \E role \in R, content \in Cn, s \in NamedSessions \cup {NoSession} :
       threads' = [threads EXCEPT ![t] =
                     [pc |-> "line25", op |-> o, user_email |-> user_of(t),
                      role |-> role, content |-> content, session_id |-> s,
                      conversation |-> None]]
  /\ UNCHANGED <<store_vars, engine_vars, channel_vars, aux_vars>>

EnterAppendMessage(t) == Enter(t, "append_message", Roles, {content_of(t)})

EnterGetOrCreate(t) == Enter(t, "get_or_create_conversation", {<<>>}, {<<>>})

\* get_or_create_conversation returns conversation id to thread t: the
\* thread goes on to the append of append_message, or is done
returns_to(t, id) ==
  IF threads[t].op = "append_message"
    THEN [threads EXCEPT ![t].pc = "line41", ![t].conversation = id]
    ELSE [threads EXCEPT ![t] = DoneThread]

\* the history of returned conversations after thread t was handed id
returned_to(t, id) ==
  IF threads[t].session_id = NoSession THEN returned
  ELSE [returned EXCEPT ![threads[t].session_id] = @ \cup {id}]

\* thread t at the test of get_or_create_conversation, and its return of the
\* conversation found
Line25(t) ==
  /\ threads[t].pc = "line25"
  /\ LET session_id == threads[t].session_id
     IN IF session_id # NoSession /\ session_id \in DOMAIN session_index
          THEN /\ threads' = returns_to(t, session_index[session_id][2])
               /\ returned' = returned_to(t, session_index[session_id][2])
          ELSE /\ threads' = [threads EXCEPT ![t].pc = "line28"]
               /\ UNCHANGED returned
  /\ UNCHANGED <<conversation_id_counter, conversations,
                 conversations_by_user, session_index, appended,
                 deleted_sessions>>
  /\ UNCHANGED <<engine_vars, channel_vars, aux_vars>>

\* thread t builds the conversation dict
Line28(t) ==
  /\ threads[t].pc = "line28"
  /\ \E created_at \in Timestamps :
       LET id == conversation_id_counter
           sid == IF threads[t].session_id # NoSession
                    THEN threads[t].session_id ELSE new_session_id
       IN /\ conversations' =
               [c \in DOMAIN conversations \cup {id} |->
                  IF c = id
                    THEN [id |-> id, session_id |-> sid,
                          created_at |-> created_at, messages |-> <<>>]
                    ELSE conversations[c]]
          /\ threads' = [threads EXCEPT ![t].pc = "line34",
                                        ![t].conversation = id]
  /\ conversation_id_counter' = conversation_id_counter + 1
  /\ UNCHANGED <<conversations_by_user, session_index, appended,
                 deleted_sessions, returned>>
  /\ UNCHANGED <<engine_vars, channel_vars, aux_vars>>

\* thread t puts the dict at the head of its user's list
Line34(t) ==
  /\ threads[t].pc = "line34"
  /\ conversations_by_user' =
       [conversations_by_user EXCEPT
          ![threads[t].user_email] = insert_first(@, threads[t].conversation)]
  /\ threads' = [threads EXCEPT ![t].pc = "line35"]
  /\ UNCHANGED <<conversation_id_counter, conversations, session_index,
                 appended, deleted_sessions, returned>>
  /\ UNCHANGED <<engine_vars, channel_vars, aux_vars>>

\* thread t enters the dict in the session index and returns it
Line35(t) ==
  /\ threads[t].pc = "line35"
  /\ session_index' =
       index_with(session_index,
                  conversations[threads[t].conversation].session_id,
                  threads[t].user_email, threads[t].conversation)
  /\ threads' = returns_to(t, threads[t].conversation)
  /\ returned' = returned_to(t, threads[t].conversation)
  /\ UNCHANGED <<conversation_id_counter, conversations,
                 conversations_by_user, appended, deleted_sessions>>
  /\ UNCHANGED <<engine_vars, channel_vars, aux_vars>>

\* thread t appends the message to the dict it was handed, and returns
Line41(t) ==
  /\ threads[t].pc = "line41"
  /\ \E timestamp \in Timestamps :
       LET message == [role |-> threads[t].role,
                       content |-> threads[t].content,
                       timestamp |-> timestamp]
       IN /\ conversations' =
               append_to([conversations |-> conversations,
                          id |-> threads[t].conversation], message)
          /\ appended' =
               IF threads[t].session_id = NoSession THEN appended
               ELSE [appended EXCEPT
                       ![threads[t].session_id] = Append(@, message)]
  /\ threads' = [threads EXCEPT ![t] = DoneThread]
  /\ UNCHANGED <<conversation_id_counter, conversations_by_user,
                 session_index, deleted_sessions, returned>>
  /\ UNCHANGED <<engine_vars, channel_vars, aux_vars>>

\* one step of thread t
ThreadStep(t) ==
  \/ EnterAppendMessage(t)
  \/ EnterGetOrCreate(t)
  \/ Line25(t)
  \/ Line28(t)
  \/ Line34(t)
  \/ Line35(t)
  \/ Line41(t)

vars == <<engine_vars, store_vars, caller_vars, aux_vars>>

\* drug before the resolver has run in a call
Unresolved == -2

\* no prompt was built in the call
NoPrompt == [context_msg |-> "none", question |-> <<>>, sent |-> FALSE]

\* what the backends do during one generation: whether similarity_search
\* raises, whether llm.invoke or the cleaning of its result raises, and the
\* raw text the model returns otherwise
Backend(vs_raises, llm_raises, raw) ==
  [consulted |-> TRUE, vs_raises |-> vs_raises, llm_raises |-> llm_raises,
   raw |-> raw]

\* no backend was consulted in the call
NoBackend ==
  [consulted |-> FALSE, vs_raises |-> FALSE, llm_raises |-> FALSE,
   raw |-> <<>>]

\* RAGService.__init__: without the ML stack both backends are None; with it
\* the index and the model load or fail to load independently
InitService ==
  /\ llm \in {"none", "configured"}
  /\ vector_store \in {"none", "configured"}

InitCall ==
  /\ pc = "idle"
  /\ op = "none"
  /\ question = <<>>
  /\ user_type = "patient"
  /\ rag_service = "none"
  /\ drug = Unresolved
  /\ backend = NoBackend
  /\ prompt = NoPrompt
  /\ response = NoResponse
  /\ raised = FALSE

\* a caller invokes operation o with a text from Q, an audience from UT and,
\* for the webhook, a service handle from RS
Call(o, Q, UT, RS) ==
  /\ pc = "idle"
  /\ \E q \in Q, ut \in UT, rs \in RS :
       /\ question' = q
       /\ user_type' = ut
       /\ rag_service' = rs
  /\ op' = o
  /\ pc' = "called"
  /\ UNCHANGED <<llm, vector_store, drug, backend, prompt, response, raised>>
  /\ UNCHANGED store_vars
  /\ UNCHANGED caller_vars
  /\ UNCHANGED aux_vars

\* the result of a call: the resolver's result, what the backends did, the
\* prompt sent to the model, the text returned, and whether the call raised
\* instead of returning
Outcome(d, b, p, r, exc) ==
  [drug |-> d, backend |-> b, prompt |-> p, response |-> r, raised |-> exc]

\* the call ends with outcome o
Finish(o) ==
  /\ drug' = o.drug
  /\ backend' = o.backend
  /\ prompt' = o.prompt
  /\ response' = o.response
  /\ raised' = o.raised
  /\ pc' = "done"
  /\ UNCHANGED <<llm, vector_store, op, question, user_type, rag_service>>
  /\ UNCHANGED store_vars
  /\ UNCHANGED caller_vars
  /\ UNCHANGED aux_vars

\* the caller takes the result; the next call starts from fresh locals
Return ==
  /\ pc = "done"
  /\ pc' = "idle"
  /\ op' = "none"
  /\ question' = <<>>
  /\ user_type' = "patient"
  /\ rag_service' = "none"
  /\ drug' = Unresolved
  /\ backend' = NoBackend
  /\ prompt' = NoPrompt
  /\ response' = NoResponse
  /\ raised' = FALSE
  /\ UNCHANGED <<llm, vector_store>>
  /\ UNCHANGED store_vars
  /\ UNCHANGED caller_vars
  /\ UNCHANGED aux_vars

\* a call of RAGService.search_drug(question) runs to its return
SearchDrug ==
  /\ pc = "called"
  /\ op = "search_drug"
  /\ \E d \in {search_drug(question)} :
       Finish(Outcome(d, NoBackend, NoPrompt, NoResponse, d = KeyError))

\* a call of RAGService._extract_drug_from_query(question) runs to its return
ExtractDrug ==
  /\ pc = "called"
  /\ op = "extract_drug_from_query"
  /\ \E d \in {extract_drug_from_query(question)} :
       Finish(Outcome(d, NoBackend, NoPrompt, NoResponse, d = KeyError))

\* generate without the outer except clause: a failing model call leaves the
\* block as an exception
generate_uncaught(q, b) ==
  LET context_msg == IF vector_store = "configured" /\ ~b.vs_raises
                       THEN "retrieved" ELSE "none"
  IN [prompt |-> [context_msg |-> context_msg, question |-> q, sent |-> TRUE],
      response |-> IF b.llm_raises THEN NoResponse
                   ELSE llm_response(q, b.raw),
      raised |-> b.llm_raises]

\* STEP 3 of RAGService.query, the try block and its handlers: the prompt
\* built, the text returned and whether an exception leaves the block when
\* the backends behave as b.  A failed similarity search leaves context_msg
\* empty and generation goes on; any other exception gives the help text.
generate(q, b) ==
  LET context_msg == IF vector_store = "configured" /\ ~b.vs_raises
                       THEN "retrieved" ELSE "none"
  IN [prompt |-> [context_msg |-> context_msg, question |-> q, sent |-> TRUE],
      response |-> IF b.llm_raises THEN general_help_response(q)
                   ELSE llm_response(q, b.raw),
      raised |-> FALSE]

\* the behaviours of the backends that can be told apart in the current
\* configuration, the raw outputs being drawn from outs
Backends(outs) ==
  LET V == IF vector_store = "configured" THEN BOOLEAN ELSE {FALSE}
  IN {Backend(v, FALSE, raw) : v \in V, raw \in outs}
     \cup {Backend(v, TRUE, <<>>) : v \in V}

\* the rest of RAGService.query once the resolver has returned d: its
\* possible results, one for each behaviour of the backends it consults
query_after(d, q, ut, outs) ==
  IF d = KeyError
    THEN {Outcome(d, NoBackend, NoPrompt, NoResponse, TRUE)}
  ELSE IF d # NoDrug
    THEN {Outcome(d, NoBackend, NoPrompt, format_drug_response(d, ut), FALSE)}
  ELSE IF intent_response(q) # NoResponse
    THEN {Outcome(d, NoBackend, NoPrompt, intent_response(q), FALSE)}
  ELSE IF llm = "configured"
    THEN {Outcome(d, b, generate(q, b).prompt, generate(q, b).response,
                  generate(q, b).raised) : b \in Backends(outs)}
  ELSE {Outcome(d, NoBackend, NoPrompt, general_help_response(q), FALSE)}

\* RAGService.query(question, user_type): its possible results
query(q, ut, outs) ==
  UNION {query_after(d, q, ut, outs) : d \in {extract_drug_from_query(q)}}

\* a call of RAGService.query runs to its return
Query(outs) ==
  /\ pc = "called"
  /\ op = "query"
  /\ \E o \in query(question, user_type, outs) : Finish(o)

\* list[-n:]
LastN(list, n) ==
  IF Len(list) <= n THEN list ELSE SubSeq(list, Len(list) - n + 1, Len(list))

\* list[:n]
FirstN(list, n) == IF Len(list) <= n THEN list ELSE SubSeq(list, 1, n)

\* MAX_CONTEXT_MESSAGES of webhook_routes.py
MAX_CONTEXT_MESSAGES == 5

\* msg['text'][:200] in _get_conversation_context
ContextTextLimit == 200

\* the role arguments of _record_message
UserRole == <<"U","s","e","r">>
AssistantRole == <<"A","s","s","i","s","t","a","n","t">>

\* _record_message keeping the first MAX_CONTEXT_MESSAGES entries when it
\* cuts the history
record_message_keep_first(history, role, text, now) ==
  LET added == Append(history, [role |-> role, text |-> text,
                                timestamp |-> now])
  IN IF Len(added) > MAX_CONTEXT_MESSAGES * 2
       THEN FirstN(added, MAX_CONTEXT_MESSAGES)
     ELSE added

\* _record_message(phone_number, role, text) at time now, history being
\* _user_conversations[phone_number]: the list it leaves there
record_message(history, role, text, now) ==
  LET added == Append(history, [role |-> role, text |-> text,
                                timestamp |-> now])
  IN IF Len(added) > MAX_CONTEXT_MESSAGES * 2
       THEN LastN(added, MAX_CONTEXT_MESSAGES)
     ELSE added

\* "\n".join(lines)
RECURSIVE JoinLines(_)
JoinLines(lines) ==
  IF lines = <<>> THEN <<>>
  ELSE IF Len(lines) = 1 THEN lines[1]
  ELSE lines[1] \o <<"\n">> \o JoinLines(Tail(lines))

\* f"{role}: {text}" with the text cut to its first 200 characters
context_line(msg) ==
  msg.role \o <<":"," ">> \o FirstN(msg.text, ContextTextLimit)

\* _get_conversation_context(phone_number), history being
\* _user_conversations.get(phone_number, [])
get_conversation_context(history) ==
  LET recent == LastN(history, MAX_CONTEXT_MESSAGES)
  IN JoinLines([i \in 1..Len(recent) |-> context_line(recent[i])])

\* query answering with the conversation context when it is given one
query_answering_context(d, q, ut, context, outs) ==
  {IF context # <<>> /\ o.response.kind \in {"general_help", "llm_answer"}
     THEN [o EXCEPT !.response.kind = "llm_answer",
                    !.response.text = context]
     ELSE o : o \in query_after(d, q, ut, outs)}

\* RAGService.query(question, user_type, context) once STEP 1 has resolved
\* d: its possible results
query_in_context(d, q, ut, context, outs) == query_after(d, q, ut, outs)

\* RAGService.query(question, user_type, context): its possible results
query_with_context(q, ut, context, outs) ==
  UNION {query_in_context(d, q, ut, context, outs) :
           d \in {extract_drug_from_query(q)}}

\* webhook_result without the test of the response and without the except
\* clause
webhook_result_unguarded(query_text, o) == o

\* what _process_user_query makes of a result of rag_service.query: a
\* non-empty text is returned as it is, an empty one or an exception gives
\* the default reply
webhook_result(query_text, o) ==
  IF o.raised \/ IsEmptyText(o.response)
    THEN [o EXCEPT !.response = webhook_default(query_text),
                   !.raised = FALSE]
    ELSE o

\* _process_user_query(query, phone_number, rag_service), context being
\* _get_conversation_context(phone_number): its possible results.  The
\* rag_service handed in is None ("none"), the RAGService of this model
\* ("present"), or an object whose query raises ("raising") or returns the
\* empty string ("empty")
\* answered being what rag_service.query(question=query,
\* user_type='patient', context=context) can return when rag_service is the
\* RAGService.
process_user_query_answered(query_text, rs, answered) ==
  IF webhook_intent(query_text) # NoResponse
    THEN {Outcome(Unresolved, NoBackend, NoPrompt,
                  webhook_intent(query_text), FALSE)}
  ELSE IF rs = "present"
    THEN {webhook_result(query_text, o) : o \in answered}
  ELSE IF rs = "raising"
    THEN {webhook_result(query_text,
                         Outcome(Unresolved, NoBackend, NoPrompt, NoResponse,
                                 TRUE))}
  ELSE IF rs = "empty"
    THEN {webhook_result(query_text,
                         Outcome(Unresolved, NoBackend, NoPrompt, NoResponse,
                                 FALSE))}
  ELSE {Outcome(Unresolved, NoBackend, NoPrompt,
                webhook_default(query_text), FALSE)}

\* _process_user_query with the context of the phone number
process_user_query_for(query_text, rs, context, outs) ==
  process_user_query_answered(query_text, rs,
                              query_with_context(query_text, "patient",
                                                 context, outs))

\* _process_user_query for a phone number without recorded messages
process_user_query(query_text, rs, outs) ==
  process_user_query_for(query_text, rs, <<>>, outs)

\* a call of _process_user_query runs to its return
ProcessUserQuery(outs) ==
  /\ pc = "called"
  /\ op = "process_user_query"
  /\ \E o \in process_user_query(question, rag_service, outs) : Finish(o)

----------------------------------------------------------------------------
(* The chat endpoints (chat_routes.py).  A request is handled in one step: *)
(* the handler's reads of the request, its calls of the engine and of the  *)
(* store, its writes to the Flask session and the result it returns.       *)

\* a key of the JSON body: not there, there with null, or there with text
Absent == [kind |-> "absent", text |-> <<>>]
Null == [kind |-> "null", text |-> <<>>]
TextArg(x) == [kind |-> "text", text |-> x]

\* the message and drug_name values clients send
ChatTexts ==
  {<<>>, <<" "," ">>, <<"h","i">>, <<" ","p","a","r","a","c","e","t","a","m","o","l"," ">>}

MessageArgs == {Absent, Null} \cup {TextArg(x) : x \in ChatTexts}

DrugNameArgs ==
  {Absent, Null}
    \cup {TextArg(x) :
            x \in {<<>>, <<" ">>, <<"x","y","z">>,
                   <<"P","a","r","a","c","e","t","a","m","o","l">>,
                   <<"m","e","t","f","o","r","m","i","n"," ">>,
                   <<"d","o","l","o"," ","6","5","0">>}}

\* the user_type values clients send; "unset" is a body without the key
Audiences == {"unset", "patient", "student", "Student"}

\* the session_id values clients send; NoSession is a body without the key
ChatSessions == {NoSession, <<"s","1">>}

\* the user_email values clients send; "absent" is a body without the key
UserEmailArgs == {"absent", "u1"}

\* str(uuid.uuid4()) for a client that has no chat session yet
uuid4 == <<"u","u","i","d","4">>

\* chat_history[-20:] of process_chat_message, [-10:] of process_chat_query
MessageHistoryLimit == 20
QueryHistoryLimit == 10

\* data.get(key, '') without the strip
get_unstripped(arg) == IF arg.kind = "absent" THEN <<>> ELSE arg.text

\* data.get(key, '').strip() for a value that is not null
get_stripped(arg) == IF arg.kind = "absent" THEN <<>> ELSE Strip(arg.text)

\* data.get('user_type', 'patient') and session.get('user_type', 'patient')
get_user_type(arg) == IF arg = "unset" THEN "patient" ELSE arg

NoRequest ==
  [requests |-> 0, endpoint |-> "none", message |-> Absent,
   user_email |-> "absent", session_id |-> NoSession, user_type |-> "unset",
   status |-> 0, response |-> NoResponse, invoked |-> FALSE]

InitChannel ==
  /\ flask_session = [chat_session_id |-> NoSession, user_type |-> "unset",
                      chat_history |-> <<>>]
  /\ http = NoRequest

\* current_app.config.get('RAG_SERVICE') of an application whose engine did
\* not load
NoService == [extract |-> {}, search |-> {}]

\* the application when no chat endpoint is called
InitApp == app_config = [rag_service |-> NoService, chat_store |-> TRUE]

\* what a handler did: the HTTP status and the text it returned, whether it
\* called the engine, the Flask session and the store it left, and the
\* conversation its own call of get_or_create_conversation returned
Handled(status, resp, invoked, sess, st, got) ==
  [status |-> status, response |-> resp, invoked |-> invoked,
   session |-> sess, st |-> st, got |-> got]

\* a handler that returned before it wrote anything
Rejected(status) ==
  Handled(status, NoResponse, FALSE, flask_session, store_now, None)

\* lines 86-101 of process_chat_message: the turn is handed to the store,
\* or to the session history when the store cannot be imported
store_turn(o, user_message, user_email, session_id, sess, now) ==
  LET response_text == text_of(o.response)
  IN IF app_config.chat_store
       THEN LET conv == get_or_create_in(store_now, user_email, session_id,
                                         now)
                first == append_message_in(conv, user_email, session_id,
                                           <<"u","s","e","r">>,
                                           user_message, now)
                second == append_message_in(first, user_email, session_id,
                                            <<"a","s","s","i","s","t","a","n","t">>,
                                            response_text, now)
            IN Handled(200, o.response, TRUE, sess, second, conv.id)
     ELSE Handled(200, o.response, TRUE,
                  [sess EXCEPT !.chat_history =
                     LastN(Append(@, [user |-> user_message,
                                      assistant |-> response_text,
                                      user_type |-> "unset"]),
                           MessageHistoryLimit)],
                  store_now, None)

\* the result paired with text x in a table of (text, result) pairs
result_for(table, x) == (CHOOSE p \in table : p[1] = x)[2]

\* the RAGService object of the application: its _extract_drug_from_query
\* (STEP 1 of query) and its search_drug, tabulated over the texts the chat
\* endpoints can hand to them
RagService ==
  [extract |-> {<<q, extract_drug_from_query(q)>> :
                  q \in {get_stripped(m) : m \in MessageArgs \ {Null}}},
   search |-> {<<x, search_drug(x)>> :
                 x \in {get_stripped(a) : a \in DrugNameArgs \ {Null}}}]

\* what rag_service.query can return for the message of a request and the
\* audience: nothing for a message the handler rejects
answers(message, audience, outs) ==
  IF \/ message.kind = "null"
     \/ get_stripped(message) = <<>>
     \/ app_config.rag_service = NoService
    THEN {}
  ELSE query_after(result_for(app_config.rag_service.extract,
                              get_stripped(message)),
                   get_stripped(message), audience, outs)

\* process_chat_message: its possible results for a request body, answered
\* being what rag_service.query(user_message, user_type) can return
process_chat_message(message, user_email_arg, incoming_session_id, now, answered) ==
  IF message.kind = "null" THEN {Rejected(500)}
  ELSE
    LET user_message == get_stripped(message)
        user_email == IF user_email_arg = "absent" THEN "anonymous"
                      ELSE user_email_arg
        session_id ==
          IF incoming_session_id # NoSession THEN incoming_session_id
          ELSE IF flask_session.chat_session_id # NoSession
            THEN flask_session.chat_session_id
          ELSE uuid4
        sess == [flask_session EXCEPT !.chat_session_id = session_id]
    IN IF user_message = <<>> THEN {Rejected(400)}
       ELSE IF app_config.rag_service = NoService
         THEN {Handled(503, NoResponse, FALSE, sess, store_now, None)}
       ELSE {IF o.raised
               THEN Handled(500, NoResponse, TRUE, sess, store_now, None)
               ELSE store_turn(o, user_message, user_email, session_id,
                               sess, now) :
               o \in answered}

\* process_chat_query: its possible results for a request body, answered
\* being what rag_service.query(user_message, user_type) can return
process_chat_query(message, user_type_arg, answered) ==
  IF message.kind = "null" THEN {Rejected(500)}
  ELSE
    LET user_message == get_stripped(message)
        audience == get_user_type(user_type_arg)
    IN IF user_message = <<>> THEN {Rejected(400)}
       ELSE IF app_config.rag_service = NoService THEN {Rejected(503)}
       ELSE {IF o.raised
               THEN Handled(500, NoResponse, TRUE, flask_session, store_now,
                            None)
               ELSE Handled(200, o.response, TRUE,
                            [flask_session EXCEPT !.chat_history =
                               LastN(Append(@, [user |-> user_message,
                                                assistant |->
                                                  text_of(o.response),
                                                user_type |-> audience]),
                                     QueryHistoryLimit)],
                            store_now, None) :
               o \in answered}

\* what rag_service.search_drug returns for the drug_name of a request:
\* nothing for a name the handler rejects
found_drug(drug_name_arg) ==
  IF \/ drug_name_arg.kind = "null"
     \/ get_stripped(drug_name_arg) = <<>>
     \/ app_config.rag_service = NoService
    THEN NoDrug
  ELSE result_for(app_config.rag_service.search,
                  get_stripped(drug_name_arg))

\* the search_drug endpoint (/drug-search): its result for a request body,
\* drug_info being what rag_service.search_drug(drug_name) returns
search_drug_route(drug_name_arg, user_type_arg, drug_info) ==
  IF drug_name_arg.kind = "null" THEN Rejected(500)
  ELSE
    LET drug_name == get_stripped(drug_name_arg)
    IN IF drug_name = <<>> THEN Rejected(400)
       ELSE IF app_config.rag_service = NoService THEN Rejected(503)
       ELSE IF drug_info = KeyError
         THEN Handled(500, NoResponse, TRUE, flask_session, store_now, None)
       ELSE IF drug_info # NoDrug
         THEN Handled(200,
                      format_drug_response(drug_info,
                                           get_user_type(user_type_arg)),
                      TRUE, flask_session, store_now, None)
       ELSE Handled(200,
                    [kind |-> "not_found", drug |-> NoDrug, listed |-> <<>>,
                     text |-> drug_name],
                    TRUE, flask_session, store_now, None)

\* the endpoint returns res for the request it was sent
Respond(endpoint, message, user_email, session_id, user_type_arg, res) ==
  /\ http' = [requests |-> http.requests + 1, endpoint |-> endpoint,
              message |-> message, user_email |-> user_email,
              session_id |-> session_id, user_type |-> user_type_arg,
              status |-> res.status, response |-> res.response,
              invoked |-> res.invoked]
  /\ flask_session' = res.session
  /\ conversation_id_counter' = res.st.counter
  /\ conversations' = res.st.conversations
  /\ conversations_by_user' = res.st.by_user
  /\ session_index' = res.st.index
  /\ returned' =
       IF res.got # None /\ res.session.chat_session_id \in DOMAIN returned
         THEN [returned EXCEPT
                 ![res.session.chat_session_id] = @ \cup {res.got}]
         ELSE returned
  /\ UNCHANGED <<appended, deleted_sessions, app_config, threads>>
  /\ UNCHANGED engine_vars
  /\ UNCHANGED aux_vars

\* a POST to /message
ProcessChatMessage ==
  /\ http.requests < MaxRequests
  /\ \E message \in MessageArgs :
       \E answered \in {answers(message,
                                 get_user_type(flask_session.user_type),
                                 Outputs(1))} :
         \E user_email \in UserEmailArgs,
            session_id \in ChatSessions,
            now \in Timestamps :
           \E res \in process_chat_message(message, user_email, session_id,
                                           now, answered) :
             Respond("message", message, user_email, session_id, "unset",
                     res)

\* a POST to /query
ProcessChatQuery ==
  /\ http.requests < MaxRequests
  /\ \E message \in MessageArgs, user_type_arg \in Audiences :
       \E answered \in {answers(message, get_user_type(user_type_arg),
                                 Outputs(1))} :
         \E res \in process_chat_query(message, user_type_arg, answered) :
           Respond("query", message, "absent", NoSession, user_type_arg, res)

\* a POST to /drug-search
SearchDrugRoute ==
  /\ http.requests < MaxRequests
  /\ \E drug_name \in DrugNameArgs :
       \E drug_info \in {found_drug(drug_name)} :
         \E user_type_arg \in Audiences :
           Respond("drug-search", drug_name, "absent", NoSession,
                   user_type_arg,
                   search_drug_route(drug_name, user_type_arg, drug_info))

----------------------------------------------------------------------------
(* get_rag_service (rag_service.py:880-888) under concurrent callers.  The *)
(* function takes no lock; a thread can be suspended between any two of    *)
(* its steps: the test of the global, the construction of the object, the  *)
(* assignment to the global and the read of the global for the return.     *)

\* the threads that call get_rag_service
Getters == {"g1", "g2", "g3"}

\* a thread that has not called yet
IdleGetter == [pc |-> "idle", built |-> None, result |-> None]

InitSingleton ==
  /\ rag_service_global = None
  /\ instances = 0
  /\ getters = [g \in Getters |-> IdleGetter]

\* line 886: if _rag_service is None
Line886(g) ==
  /\ getters[g].pc = "idle"
  /\ getters' = [getters EXCEPT
                   ![g].pc = IF rag_service_global = None THEN "line887"
                             ELSE "line888"]
  /\ UNCHANGED <<rag_service_global, instances>>
  /\ UNCHANGED <<auth_vars, engine_vars, store_vars, caller_vars, window_vars,
                 webhook_vars>>

\* line 887, the call: RAGService() builds a new object
Line887Construct(g) ==
  /\ getters[g].pc = "line887"
  /\ instances' = instances + 1
  /\ getters' = [getters EXCEPT ![g].pc = "line887_store",
                                ![g].built = instances + 1]
  /\ UNCHANGED rag_service_global
  /\ UNCHANGED <<auth_vars, engine_vars, store_vars, caller_vars, window_vars,
                 webhook_vars>>

\* line 887, the assignment: _rag_service = <the object built>
Line887Store(g) ==
  /\ getters[g].pc = "line887_store"
  /\ rag_service_global' = getters[g].built
  /\ getters' = [getters EXCEPT ![g].pc = "line888"]
  /\ UNCHANGED instances
  /\ UNCHANGED <<auth_vars, engine_vars, store_vars, caller_vars, window_vars,
                 webhook_vars>>

\* line 888: return _rag_service
Line888(g) ==
  /\ getters[g].pc = "line888"
  /\ getters' = [getters EXCEPT ![g].pc = "done",
                                ![g].result = rag_service_global]
  /\ UNCHANGED <<rag_service_global, instances>>
  /\ UNCHANGED <<auth_vars, engine_vars, store_vars, caller_vars, window_vars,
                 webhook_vars>>

\* one step of caller g in get_rag_service
GetRagServiceStep(g) ==
  \/ Line886(g)
  \/ Line887Construct(g)
  \/ Line887Store(g)
  \/ Line888(g)

----------------------------------------------------------------------------
(* The send window of WhatsAppService (whatsapp_service.py:316-336 and     *)
(* 418-433; code/backend/services/whatsapp_service.py holds the same       *)
(* methods).  Times are readings of datetime.now() in whole hours.         *)

\* the WhatsApp numbers of the users
Phones == {"n1", "n2"}

\* timedelta(hours=24)
WindowHours == 24

\* no call of can_send_message or get_session_status has been made
NoWindowReply ==
  [op |-> "none", number |-> "none", last_message |-> -1,
   can_send |-> FALSE, window_open |-> FALSE]

\* a time that is no reading of the clock: the number has no session
NoTime == -1

\* session['last_message'] as the two methods read it for a number
last_message_of(number) ==
  IF number \in DOMAIN user_sessions THEN user_sessions[number].last_message
  ELSE NoTime

InitWindow ==
  /\ clock = 0
  /\ user_sessions = <<>>
  /\ recorded_at = <<>>
  /\ window_reply = NoWindowReply

\* dict[key] = value
dict_set(dict, key, value) ==
  [k \in DOMAIN dict \cup {key} |-> IF k = key THEN value ELSE dict[k]]

\* record_user_message(from_number) at time now
record_user_message(sessions, from_number, now) ==
  dict_set(sessions, from_number, [last_message |-> now, window_open |-> TRUE])

\* can_send_message with <= in place of <
can_send_message_inclusive(to_number) ==
  IF to_number \notin DOMAIN user_sessions THEN FALSE
  ELSE clock - user_sessions[to_number].last_message <= WindowHours

\* can_send_message(to_number) at the current time
can_send_message(to_number) ==
  IF to_number \notin DOMAIN user_sessions THEN FALSE
  ELSE LET time_since == clock - user_sessions[to_number].last_message
       IN time_since < WindowHours

\* get_session_status(phone_number) at the current time: the window_open
\* field of the dict it returns
get_session_status(phone_number) ==
  IF phone_number \in DOMAIN user_sessions
    THEN LET time_remaining ==
               WindowHours - (clock - user_sessions[phone_number].last_message)
         IN [window_open |-> time_remaining > 0]
  ELSE [window_open |-> FALSE]

\* an hour passes
Tick ==
  /\ clock < MaxClock
  /\ clock' = clock + 1
  /\ UNCHANGED <<user_sessions, recorded_at, window_reply>>
  /\ UNCHANGED <<auth_vars, engine_vars, store_vars, caller_vars, singleton_vars,
                 webhook_vars>>

\* a call of record_user_message
RecordUserMessage ==
  /\ \E n \in Phones :
       /\ user_sessions' = record_user_message(user_sessions, n, clock)
       /\ recorded_at' = dict_set(recorded_at, n, clock)
  /\ UNCHANGED <<clock, window_reply>>
  /\ UNCHANGED <<auth_vars, engine_vars, store_vars, caller_vars, singleton_vars,
                 webhook_vars>>

\* a call of can_send_message
CanSendMessage ==
  /\ \E n \in Phones :
       window_reply' =
         [op |-> "can_send_message", number |-> n,
          last_message |-> last_message_of(n),
          can_send |-> can_send_message(n), window_open |-> FALSE]
  /\ UNCHANGED <<clock, user_sessions, recorded_at>>
  /\ UNCHANGED <<auth_vars, engine_vars, store_vars, caller_vars, singleton_vars,
                 webhook_vars>>

\* a call of get_session_status
GetSessionStatus ==
  /\ \E n \in Phones :
       window_reply' =
         [op |-> "get_session_status", number |-> n,
          last_message |-> last_message_of(n),
          can_send |-> FALSE,
          window_open |-> get_session_status(n).window_open]
  /\ UNCHANGED <<clock, user_sessions, recorded_at>>
  /\ UNCHANGED <<auth_vars, engine_vars, store_vars, caller_vars, singleton_vars,
                 webhook_vars>>

----------------------------------------------------------------------------
(* The WhatsApp webhook (webhook_routes.py): the per-number history of     *)
(* _record_message and handle_incoming_message.  One delivery carries one  *)
(* text message; the handler runs to its end in one step.                  *)

\* c * n
Repeat(c, n) == [i \in 1..n |-> c]

\* a text longer than the 200 characters the context keeps of a message
LongText == <<"x","y","z"," ">> \o Repeat("a", ContextTextLimit)

\* the role and text arguments of direct calls of _record_message
RecordedArgs ==
  {[role |-> UserRole, text |-> LongText],
   [role |-> AssistantRole, text |-> <<"o","k">>]}

\* the message bodies delivered to the webhook
WebhookTexts ==
  {<<"h","i">>, <<"p","a","r","a","c","e","t","a","m","o","l">>, <<"x","y","z">>}

\* the RAG_SERVICE objects of the configurations
RagServices == {"none", "present", "raising", "empty"}

\* the application without services
NoServices ==
  [rag_service |-> "none", whatsapp_service |-> FALSE, extract |-> {}]

\* _extract_drug_from_query (STEP 1 of query) of the application's
\* RAGService, tabulated over the texts delivered to the webhook
\* the numbers that write to the webhook
WebhookSenders == {"n1"}

WebhookExtract ==
  {<<q, extract_drug_from_query(q)>> : q \in WebhookTexts}

InitWebhook ==
  /\ webhook_services = NoServices
  /\ user_conversations = [n \in Phones |-> <<>>]
  /\ recorded_messages = [n \in Phones |-> <<>>]
  /\ deliveries = <<>>

\* a call of _record_message(phone_number, role, text)
RecordMessage ==
  /\ Len(recorded_messages["n1"]) + Len(recorded_messages["n2"])
       < MaxRecorded
  /\ \E n \in Phones, a \in RecordedArgs :
       /\ user_conversations' =
            [user_conversations EXCEPT
               ![n] = record_message(@, a.role, a.text, clock)]
       /\ recorded_messages' =
            [recorded_messages EXCEPT
               ![n] = Append(@, [role |-> a.role, text |-> a.text,
                                 timestamp |-> clock])]
  /\ UNCHANGED <<webhook_services, deliveries>>
  /\ UNCHANGED <<auth_vars, engine_vars, store_vars, caller_vars, singleton_vars,
                 window_vars>>

\* the send window of a number as handle_incoming_message finds it
window_state(n) ==
  IF ~webhook_services.whatsapp_service THEN "no_service"
  ELSE IF n \notin DOMAIN user_sessions THEN "never"
  ELSE IF can_send_message(n) THEN "open"
  ELSE "expired"

\* the replies of handle_incoming_message that depend on the send window:
\* a number whose window is not open gets the default reply
incoming_replies_in_window(query_text, from_number, rs, answered) ==
  IF window_state(from_number) = "open"
    THEN process_user_query_answered(query_text, rs, answered)
  ELSE {Outcome(Unresolved, NoBackend, NoPrompt,
                webhook_default(query_text), FALSE)}

\* lines 129-131 of handle_incoming_message: the call of
\* _process_user_query(message_content, from_number, rag_service)
incoming_replies(query_text, from_number, rs, answered) ==
  process_user_query_answered(query_text, rs, answered)

\* handle_incoming_message for one text message from from_number: the
\* window is recorded when there is a WhatsApp service, the user message
\* is recorded, the query processed, the reply recorded and, when there is
\* a WhatsApp service, sent
HandleIncomingMessage ==
  /\ Len(deliveries) < MaxDeliveries
  /\ \E from_number \in WebhookSenders, message_content \in WebhookTexts :
       LET with_user == record_message(user_conversations[from_number],
                                       UserRole, message_content, clock)
           context == get_conversation_context(with_user)
           answered ==
             IF webhook_services.rag_service = "present"
               THEN query_in_context(result_for(webhook_services.extract,
                                                message_content),
                                     message_content, "patient", context,
                                     Outputs(1))
               ELSE {}
       IN \E o \in incoming_replies(message_content, from_number,
                                     webhook_services.rag_service,
                                     answered) :
            /\ user_sessions' =
                 IF webhook_services.whatsapp_service
                   THEN record_user_message(user_sessions, from_number,
                                            clock)
                   ELSE user_sessions
            /\ recorded_at' =
                 IF webhook_services.whatsapp_service
                   THEN dict_set(recorded_at, from_number, clock)
                   ELSE recorded_at
            /\ user_conversations' =
                 [user_conversations EXCEPT
                    ![from_number] =
                      record_message(with_user, AssistantRole,
                                     text_of(o.response), clock)]
            /\ recorded_messages' =
                 [recorded_messages EXCEPT
                    ![from_number] =
                      @ \o <<[role |-> UserRole, text |-> message_content,
                              timestamp |-> clock],
                             [role |-> AssistantRole,
                              text |-> text_of(o.response),
                              timestamp |-> clock]>>]
            /\ deliveries' =
                 Append(deliveries,
                        [from |-> from_number, text |-> message_content,
                         services |-> webhook_services,
                         llm |-> llm,
                         window |-> window_state(from_number),
                         context |-> context,
                         invoked |->
                           /\ webhook_intent(message_content) = NoResponse
                           /\ webhook_services.rag_service # "none",
                         backend |-> o.backend, prompt |-> o.prompt,
                         response |-> o.response, raised |-> o.raised,
                         sent |-> /\ webhook_services.whatsapp_service
                                  /\ ~IsEmptyText(o.response)])
  /\ UNCHANGED <<clock, window_reply, webhook_services>>
  /\ UNCHANGED <<auth_vars, engine_vars, store_vars, caller_vars,
                 singleton_vars>>

\* a day passes
Sleep ==
  /\ clock + WindowHours <= MaxClock
  /\ clock' = clock + WindowHours
  /\ UNCHANGED <<user_sessions, recorded_at, window_reply>>
  /\ UNCHANGED <<auth_vars, engine_vars, store_vars, caller_vars, singleton_vars,
                 webhook_vars>>

\* create_app: the process starts again, with or without the WhatsApp
\* credentials it had, and with empty module state
CreateApp ==
  /\ deliveries # <<>>
  /\ webhook_services' \in [rag_service : {webhook_services.rag_service},
                            whatsapp_service : BOOLEAN,
                            extract : {webhook_services.extract}]
  /\ user_sessions' = <<>>
  /\ recorded_at' = <<>>
  /\ user_conversations' = [n \in Phones |-> <<>>]
  /\ recorded_messages' = [n \in Phones |-> <<>>]
  /\ UNCHANGED <<clock, window_reply, deliveries>>
  /\ UNCHANGED <<auth_vars, engine_vars, store_vars, caller_vars,
                 singleton_vars>>

----------------------------------------------------------------------------
(* The accounts of auth_routes.py: users_db and tokens_db are module       *)
(* globals, written by /login and /register                                *)

ADMIN_EMAIL == <<"a","d","m","i","n","@","l","i","f","e","x","i","a",".","c","o","m">>
ADMIN_PASSWORD == <<"a","d","m","i","n","1","2","3">>

\* the email, password and name fields of the request bodies
AuthEmails == {<<>>, <<" ","A","n","n","@","x"," ">>, ADMIN_EMAIL}
AuthPasswords == {<<>>, <<"p","1">>, ADMIN_PASSWORD}
AuthNames == {<<>>, <<"A","n","n"," ","L","e","e">>}

\* request.json: None, or a dict; a missing field reads as ''
AuthBodies ==
  {[json |-> FALSE, email |-> <<>>, password |-> <<>>, name |-> <<>>]}
  \cup [json : {TRUE}, email : AuthEmails, password : AuthPasswords,
        name : AuthNames]

\* hashlib.sha256(password.encode()).hexdigest(), taken as free of
\* collisions: the digest of a password is named by the password
hash_password(password) == <<"s","h","a","2","5","6",":">> \o password

\* secrets.token_hex(32): a token no earlier call returned, named by the
\* number of tokens made before it
generate_token == <<"t", HexDigits[Cardinality(DOMAIN tokens_db) + 1]>>

\* email.split('@')[0]
local_part(email) ==
  IF \E i \in 1..Len(email) : email[i] = "@"
    THEN SubSeq(email, 1,
                (CHOOSE i \in 1..Len(email) :
                   /\ email[i] = "@"
                   /\ \A j \in 1..(i - 1) : email[j] # "@") - 1)
  ELSE email

\* c is a cased letter
IsLetter(c) ==
  \E k \in 1..Len(LowerChars) : c = LowerChars[k] \/ c = UpperChars[k]

\* str.title(): the first letter of every run of letters in upper case, the
\* other letters in lower case
Title(s) ==
  [i \in 1..Len(s) |->
     IF i = 1 \/ ~IsLetter(s[i - 1]) THEN UpperChar(s[i])
     ELSE LowerChar(s[i])]

UserRoleName == <<"u","s","e","r">>
AdminRoleName == <<"a","d","m","i","n">>
AdminName == <<"A","d","m","i","n">>

\* tokens_db[token] = {'email': email, 'role': role, 'created_at': now}
token_set(token, email, role, now) ==
  [k \in DOMAIN tokens_db \cup {token} |->
     IF k = token
       THEN [email |-> email, role |-> role, created_at |-> now]
     ELSE tokens_db[k]]

\* users_db[email] = {'email': ..., 'name': ..., 'password_hash': ...,
\* 'created_at': now, 'role': 'user'}
user_set(email, name, password, now) ==
  [k \in DOMAIN users_db \cup {email} |->
     IF k = email
       THEN [email |-> email, name |-> name,
             password_hash |-> hash_password(password),
             created_at |-> now, role |-> UserRoleName]
     ELSE users_db[k]]

\* no request has been made
NoAuthReply ==
  [op |-> "none", email |-> <<>>, password |-> <<>>, status |-> None,
   success |-> FALSE, token |-> <<>>, name |-> <<>>, role |-> <<>>,
   message |-> "none"]

\* the response without a token: 400, 409 or 500
auth_refused(route, email, password, status, message) ==
  [NoAuthReply EXCEPT !.op = route, !.email = email, !.password = password,
                      !.status = status, !.message = message]

\* the response with a token
auth_granted(route, email, password, name, role, message) ==
  [op |-> route, email |-> email, password |-> password, status |-> 200,
   success |-> TRUE, token |-> generate_token, name |-> name, role |-> role,
   message |-> message]

InitAuth ==
  /\ users_db = <<>>
  /\ tokens_db = <<>>
  /\ auth_reply = NoAuthReply

\* login() with request.json = data, the clock reading now
login(data, now) ==
  IF ~data.json
    THEN \* data.get raises on None; the except clause answers
         /\ auth_reply' = auth_refused("login", <<>>, <<>>, 500,
                                       "Login failed")
         /\ UNCHANGED <<users_db, tokens_db>>
  ELSE
    LET email == Lower(Strip(data.email))
        password == data.password
    IN IF email = <<>> \/ password = <<>>
         THEN /\ auth_reply' = auth_refused("login", email, password, 400,
                                            "Email and password required")
              /\ UNCHANGED <<users_db, tokens_db>>
       ELSE IF email = ADMIN_EMAIL /\ password = ADMIN_PASSWORD
         THEN /\ Cardinality(DOMAIN tokens_db) < MaxTokens
              /\ tokens_db' = token_set(generate_token, email,
                                        AdminRoleName, now)
              /\ auth_reply' = auth_granted("login", email, password,
                                            AdminName, AdminRoleName, "none")
              /\ UNCHANGED users_db
       ELSE IF /\ email \in DOMAIN users_db
               /\ users_db[email].password_hash = hash_password(password)
         THEN /\ Cardinality(DOMAIN tokens_db) < MaxTokens
              /\ tokens_db' = token_set(generate_token, email,
                                        UserRoleName, now)
              /\ auth_reply' = auth_granted("login", email, password,
                                            users_db[email].name,
                                            UserRoleName, "none")
              /\ UNCHANGED users_db
       ELSE \* line 87: every other request registers the email anew
            /\ Cardinality(DOMAIN tokens_db) < MaxTokens
            /\ users_db' = user_set(email, Title(local_part(email)),
                                    password, now)
            /\ tokens_db' = token_set(generate_token, email,
                                      UserRoleName, now)
            /\ auth_reply' = auth_granted("login", email, password,
                                          Title(local_part(email)),
                                          UserRoleName,
                                          "Account created successfully")

\* register() with request.json = data, the clock reading now
register(data, now) ==
  IF ~data.json
    THEN /\ auth_reply' = auth_refused("register", <<>>, <<>>, 500,
                                       "Registration failed")
         /\ UNCHANGED <<users_db, tokens_db>>
  ELSE
    LET email == Lower(Strip(data.email))
        password == data.password
        name == IF data.name # <<>> THEN data.name
                ELSE Title(local_part(email))
    IN IF email = <<>> \/ password = <<>>
         THEN /\ auth_reply' = auth_refused("register", email, password,
                                            400,
                                            "Email and password required")
              /\ UNCHANGED <<users_db, tokens_db>>
       ELSE IF email \in DOMAIN users_db
         THEN /\ auth_reply' = auth_refused("register", email, password,
                                            409, "Email already registered")
              /\ UNCHANGED <<users_db, tokens_db>>
       ELSE /\ Cardinality(DOMAIN tokens_db) < MaxTokens
            /\ users_db' = user_set(email, name, password, now)
            /\ tokens_db' = token_set(generate_token, email,
                                      UserRoleName, now)
            /\ auth_reply' = auth_granted("register", email, password,
                                          name, UserRoleName, "none")

\* a request POST /login
Login ==
  \E data \in AuthBodies, now \in Timestamps :
    /\ login(data, now)
    /\ UNCHANGED <<engine_vars, store_vars, caller_vars, singleton_vars,
                   window_vars, webhook_vars>>

\* a request POST /register
Register ==
  \E data \in AuthBodies, now \in Timestamps :
    /\ register(data, now)
    /\ UNCHANGED <<engine_vars, store_vars, caller_vars, singleton_vars,
                   window_vars, webhook_vars>>

NextAuth == Login \/ Register

\* the state of the processes outside the engine, the store and the chat
\* endpoints when none of them has run
InitAux ==
  /\ InitSingleton
  /\ InitWindow
  /\ InitWebhook
  /\ InitAuth

----------------------------------------------------------------------------
(* Specifications                                                          *)

Init ==
  /\ InitService
  /\ InitCall
  /\ InitStore
  /\ InitThreads
  /\ InitChannel
  /\ InitAux
  /\ InitApp

\* the engine: RAGService.query and the webhook's _process_user_query
CallQuery == Call("query", Questions, UserTypes, {"none"})

CallProcessUserQuery ==
  Call("process_user_query", Questions, {"patient"}, {"none", "present"})

RunQuery == Query(Outputs(1))

RunProcessUserQuery == ProcessUserQuery(Outputs(1))

Next ==
  \/ CallQuery
  \/ CallProcessUserQuery
  \/ RunQuery
  \/ RunProcessUserQuery
  \/ Return

Spec == Init /\ [][Next]_vars

\* the generative branch of RAGService.query against every raw output
CallGen == Call("query", GenQuestions, UserTypes, {"none"})

RunGen == Query(Outputs(MaxFrags))

NextGen == CallGen \/ RunGen \/ Return

SpecGen == Init /\ [][NextGen]_vars

\* the resolver alone, in a service without the ML stack
InitResolver ==
  /\ llm = "none"
  /\ vector_store = "none"
  /\ InitCall
  /\ InitStore
  /\ InitThreads
  /\ InitChannel
  /\ InitAux
  /\ InitApp

CallSearchDrug == Call("search_drug", ResolverTexts, {"patient"}, {"none"})

CallExtractDrug ==
  Call("extract_drug_from_query", ResolverTexts, {"patient"}, {"none"})

NextResolver ==
  \/ CallSearchDrug
  \/ CallExtractDrug
  \/ SearchDrug
  \/ ExtractDrug
  \/ Return

SpecResolver == InitResolver /\ [][NextResolver]_vars

\* the conversation store
InitStoreOnly ==
  /\ llm = "none"
  /\ vector_store = "none"
  /\ InitCall
  /\ InitStore
  /\ InitThreads
  /\ InitChannel
  /\ InitAux
  /\ InitApp

NextStore ==
  \/ GetOrCreateConversation
  \/ AppendMessage
  \/ DeleteConversation

SpecStore == InitStoreOnly /\ [][NextStore]_vars

\* the conversation store with the upload endpoint writing to it
NextUpload ==
  \/ GetOrCreateConversation
  \/ AppendMessage
  \/ DeleteConversation
  \/ UploadImage

SpecUpload == InitStoreOnly /\ [][NextUpload]_vars

\* the accounts
SpecAuth == InitStoreOnly /\ [][NextAuth]_vars

\* the conversation store under concurrent requests
NextThreads == \E t \in Threads : ThreadStep(t)

SpecThreads == InitStoreOnly /\ [][NextThreads]_vars

\* the chat endpoints, in every deployment: with or without a model, with
\* or without the engine, with or without the store
InitChat ==
  /\ llm \in {"none", "configured"}
  /\ vector_store = "none"
  /\ InitCall
  /\ InitStore
  /\ InitThreads
  /\ InitChannel
  /\ InitAux
  /\ \E service \in {RagService} :
       app_config \in [rag_service : {NoService, service},
                       chat_store : BOOLEAN]

NextChat ==
  \/ ProcessChatMessage
  \/ ProcessChatQuery
  \/ SearchDrugRoute

SpecChat == InitChat /\ [][NextChat]_vars

\* get_rag_service under concurrent callers
NextSingleton == \E g \in Getters : GetRagServiceStep(g)

SpecSingleton == InitStoreOnly /\ [][NextSingleton]_vars

\* the send window of a WhatsAppService object as time passes
NextWindow ==
  \/ Tick
  \/ RecordUserMessage
  \/ CanSendMessage
  \/ GetSessionStatus

SpecWindow == InitStoreOnly /\ [][NextWindow]_vars

\* the per-number history under calls of _record_message
SpecHistory == InitStoreOnly /\ [][RecordMessage]_vars

\* the webhook in every configuration of its services
InitWebhookApp ==
  /\ llm \in {"none", "configured"}
  /\ vector_store = "none"
  /\ InitCall
  /\ InitStore
  /\ InitThreads
  /\ InitChannel
  /\ InitApp
  /\ InitSingleton
  /\ InitWindow
  /\ InitAuth
  /\ \E table \in {WebhookExtract} :
       webhook_services \in [rag_service : RagServices,
                             whatsapp_service : BOOLEAN,
                             extract : {table}]
  /\ user_conversations = [n \in Phones |-> <<>>]
  /\ recorded_messages = [n \in Phones |-> <<>>]
  /\ deliveries = <<>>

NextWebhook ==
  \/ HandleIncomingMessage
  \/ Sleep
  \/ CreateApp

SpecWebhook == InitWebhookApp /\ [][NextWebhook]_vars

----------------------------------------------------------------------------
(* Properties of the resolver, checked under SpecResolver                  *)

\* a call of the resolver on the question has returned
Resolved == pc = "done" /\ op \in {"search_drug", "extract_drug_from_query"}

\* a call of _extract_drug_from_query has returned
Extracted == pc = "done" /\ op = "extract_drug_from_query"

\* text contains a canonical key, a generic name, a display name or an alias
ContainsName(text) ==
  LET t == Lower(text)
  IN \/ \E i \in 1..Len(DRUG_DATABASE) :
          \/ Contains(t, DRUG_DATABASE[i].key)
          \/ Contains(t, Lower(DRUG_DATABASE[i].generic))
          \/ Contains(t, Lower(DRUG_DATABASE[i].name))
     \/ \E a \in 1..Len(DRUG_ALIASES) : Contains(t, DRUG_ALIASES[a].alias)

\* C1: a text that contains no canonical key, generic name, display name or
\* alias as a substring is resolved to no drug by _extract_drug_from_query.
C1_NoMatchWithoutName ==
  (Extracted /\ ~ContainsName(question)) => drug = NoDrug

\* C2, as claimed: whenever _find_drug applied to the whole input (exact key,
\* exact alias, substring over keys and names, substring over aliases) finds
\* a record, _extract_drug_from_query returns that record; pattern spans and
\* word windows are consulted only after it.
C2_WholeInputFirst ==
  (Extracted /\ Strip(question) # <<>> /\ find_drug(question) # NoDrug)
    => drug = find_drug(question)

\* the positions of the texts of cands that _find_drug resolves
Hits(cands) == {k \in 1..Len(cands) : find_drug(cands[k]) # NoDrug}

\* the record of the first text of cands that _find_drug resolves
FirstHit(cands) ==
  find_drug(cands[CHOOSE k \in Hits(cands) : \A h \in Hits(cands) : k <= h])

\* the record the table gives for a name n that is a key or an alias
RecordOf(n) ==
  IF \E i \in 1..Len(DRUG_DATABASE) : DRUG_DATABASE[i].key = n
    THEN CHOOSE i \in 1..Len(DRUG_DATABASE) : DRUG_DATABASE[i].key = n
    ELSE LET a == CHOOSE a \in 1..Len(DRUG_ALIASES) :
                    DRUG_ALIASES[a].alias = n
         IN CHOOSE i \in 1..Len(DRUG_DATABASE) :
              DRUG_DATABASE[i].key = DRUG_ALIASES[a].key

\* the span-level order: exact key, then exact alias, then the first record
\* in table order that passes the substring test, then the target of the
\* first alias in table order that passes it, else no match
SpanOrder(text, d) ==
  LET t == Strip(Lower(text))
      D == {i \in 1..Len(DRUG_DATABASE) :
              partial_match(DRUG_DATABASE[i], t)}
      A == {a \in 1..Len(DRUG_ALIASES) :
              alias_partial_match(DRUG_ALIASES[a], t)}
  IN IF t \in Names THEN d = RecordOf(t)
     ELSE IF D # {} THEN d \in D /\ \A h \in D : d <= h
     ELSE IF A # {}
       THEN \E a \in A : /\ \A h \in A : a <= h
                         /\ d = RecordOf(DRUG_ALIASES[a].alias)
     ELSE d = NoDrug

\* C2, amended: _extract_drug_from_query returns the record of the first
\* successful step in the order pattern spans (in pattern order), single
\* words (left to right), windows of one to three words (by start, then
\* length); _find_drug resolves a span by exact key, exact alias, substring
\* over keys and names, substring over aliases, in that order.
C2_ExtractionOrder ==
  /\ Extracted =>
       LET spans == pattern_candidates(1, question)
           words == Split(question)
           windows == combos(words, 0, 1)
       IN IF Hits(spans) # {} THEN drug = FirstHit(spans)
          ELSE IF Hits(words) # {} THEN drug = FirstHit(words)
          ELSE IF Hits(windows) # {} THEN drug = FirstHit(windows)
          ELSE drug = NoDrug
  /\ (pc = "done" /\ op = "search_drug") => SpanOrder(question, drug)

\* C2 witness: a pattern span decided the result although the whole input
\* contains the key of another record that _find_drug would have returned.
C2_Witness ==
  /\ Extracted
  /\ Hits(pattern_candidates(1, question)) # {}
  /\ drug >= 1
  /\ find_drug(question) >= 1
  /\ find_drug(question) # drug

\* C4: every alias resolves to the record stored under the key it maps to,
\* and that key resolves to the same record, through search_drug and through
\* _extract_drug_from_query.
C4_AliasClosure ==
  Resolved =>
    \A a \in 1..Len(DRUG_ALIASES) :
      (question = DRUG_ALIASES[a].alias \/ question = DRUG_ALIASES[a].key)
        => /\ drug >= 1
           /\ DRUG_DATABASE[drug].key = DRUG_ALIASES[a].key

\* C4 witness: a multi-word alias has been resolved by the extractor to the
\* record of its key.
C4_Witness ==
  /\ Extracted
  /\ \E a \in 1..Len(DRUG_ALIASES) :
       /\ question = DRUG_ALIASES[a].alias
       /\ Len(Split(question)) > 1
       /\ drug >= 1
       /\ DRUG_DATABASE[drug].key = DRUG_ALIASES[a].key

\* C5: a casing variant of a canonical key or alias resolves to the record
\* the table gives for that key or alias.
C5_CaseInsensitive ==
  (Resolved /\ question # Lower(question) /\ Lower(question) \in Names)
    => drug = RecordOf(Lower(question))

\* C5 witness: an all-upper-case alias has been resolved by the extractor.
C5_Witness ==
  /\ Extracted
  /\ Lower(question) \in Names
  /\ Lower(question) \notin {DRUG_DATABASE[i].key : i \in 1..Len(DRUG_DATABASE)}
  /\ question = UpperAt(Lower(question), 1..Len(question))
  /\ question # Lower(question)
  /\ drug = RecordOf(Lower(question))

----------------------------------------------------------------------------
(* Properties of the engine, checked under Spec and SpecGen                *)

\* a call of RAGService.query has ended
Queried == pc = "done" /\ op = "query"

\* a call of either entry point that answers a user query has ended
Answered == pc = "done" /\ op \in {"query", "process_user_query"}

\* the kinds of text that render a drug record
RecordKinds == {"patient_record", "student_record"}

\* the kinds of canned intent text
IntentKinds ==
  {"emergency_list", "hospital_guidance", "welcome", "catalog",
   "wa_menu", "wa_emergency", "wa_ayushman"}

\* the kinds of text RAGService.query returns, one for each branch
QueryKinds ==
  RecordKinds
  \cup {"emergency_list", "hospital_guidance", "welcome", "catalog",
        "llm_answer", "general_help"}

\* C3: on both entry points the resolver is consulted before any intent
\* keyword, so whenever the resolver finds a drug for the question the text
\* returned is the formatted record of that drug, never an intent's canned
\* text.
C3_DrugFirst ==
  Answered =>
    LET d == IF drug = Unresolved THEN extract_drug_from_query(question)
             ELSE drug
    IN d >= 1 =>
         /\ response.kind \notin IntentKinds
         /\ (op = "query" \/ rag_service = "present")
              => response = format_drug_response(d, user_type)

\* C6: RAGService.query ends by returning, on exactly one of its branches, a
\* text that is not empty, whatever the question, the audience, the
\* configuration and the behaviour of the backends.
C6_NonEmptyResponse ==
  Queried =>
    /\ ~raised
    /\ response.kind \in QueryKinds
    /\ ~IsEmptyText(response)
    /\ response.kind = "llm_answer" => Len(response.text) > 0
    /\ response.kind \in RecordKinds <=> drug >= 1
    /\ response.kind = "llm_answer" => backend.consulted /\ ~backend.llm_raises

\* C6 witness: the model returned text that is empty once cleaned and the
\* call returned the help text.
C6_Witness ==
  /\ Queried
  /\ backend.consulted
  /\ ~backend.llm_raises
  /\ clean_response(backend.raw) = <<>>
  /\ backend.raw # <<>>
  /\ response.kind = "general_help"

\* C7: the text returned by the generative branch contains neither
\* <|im_start|> nor <|im_end|>, and the help text is returned whenever the
\* cleaned model output is empty or contains one of them.
C7_NoLeakedMarkers ==
  (Queried /\ backend.consulted) =>
    /\ ~Contains(response.text, IM_START)
    /\ ~Contains(response.text, IM_END)
    /\ (~backend.llm_raises /\
          (\/ clean_response(backend.raw) = <<>>
           \/ Contains(clean_response(backend.raw), IM_START)
           \/ Contains(clean_response(backend.raw), IM_END)))
         => response.kind = "general_help"

\* C8, as claimed: whenever document retrieval or the model invocation raises
\* during generation, the call returns the help text and does not raise.
C8_AnyFailureGivesFallback ==
  (Queried /\ backend.consulted /\ (backend.vs_raises \/ backend.llm_raises))
    => ~raised /\ response.kind = "general_help"

\* C8, amended: no exception leaves the generative branch; when the model
\* invocation or the cleaning raises the call returns the help text for the
\* question; when only document retrieval raises, generation goes on with a
\* prompt without retrieved context and the call returns what the model
\* output gives.
C8_FailuresCaught ==
  (Queried /\ backend.consulted) =>
    /\ ~raised
    /\ backend.llm_raises =>
         /\ response.kind = "general_help"
         /\ response.text = question
    /\ backend.vs_raises =>
         /\ prompt.sent
         /\ prompt.context_msg = "none"
         /\ ~backend.llm_raises =>
              response = llm_response(question, backend.raw)

\* C8 witness: the model invocation raised and the call returned the help
\* text.
C8_Witness ==
  /\ Queried
  /\ backend.consulted
  /\ backend.llm_raises
  /\ ~raised
  /\ response.kind = "general_help"

\* C9: without a language model every call that reaches the generative
\* fallback returns, without raising, the one catalog-guidance text that
\* echoes the question and lists every record of the fact store.
C9_FallbackFixed ==
  (Queried /\ llm = "none" /\ drug = NoDrug
     /\ intent_response(question) = NoResponse)
    => /\ ~raised
       /\ response.kind = "general_help"
       /\ response.text = question
       /\ Len(response.listed) = Len(DRUG_DATABASE)
       /\ \A i \in 1..Len(DRUG_DATABASE) : response.listed[i] = i

\* C9 witness: a question that no drug and no intent matches was answered
\* with the catalog-guidance text by a service without a model.
C9_Witness ==
  /\ Queried
  /\ llm = "none"
  /\ question # <<>>
  /\ drug = NoDrug
  /\ response.kind = "general_help"
  /\ response.text = question

----------------------------------------------------------------------------
(* Properties of the conversation store, checked under SpecStore           *)

\* the messages of the conversation get_conversation(session_id) returns
messages_of(session_id) == conversations[get_conversation(session_id)].messages

Listed ==
  {<<u, k>> : u \in Users, k \in 1..MaxConversations} \cap
  UNION {{<<u, k>> : k \in 1..Len(conversations_by_user[u])} : u \in Users}

\* the id of the conversation at position p[2] of the list of user p[1]
listed_id(p) == conversations_by_user[p[1]][p[2]]

\* C11, as claimed: all the calls of get_or_create_conversation naming one
\* session id were handed one and the same conversation, and calls naming
\* different session ids were handed different conversations.
C11_SameSessionSameConversation ==
  /\ \A s \in NamedSessions : Cardinality(returned[s]) <= 1
  /\ \A s1, s2 \in NamedSessions :
       s1 # s2 => returned[s1] \cap returned[s2] = {}

\* C11, amended: as long as the conversation of a session id has not been
\* deleted, all the calls naming that id were handed the one conversation
\* the session index holds for it; calls naming different session ids were
\* never handed the same conversation, deleted or not.
C11_SessionIdentity ==
  /\ \A s \in NamedSessions \ deleted_sessions :
       /\ Cardinality(returned[s]) <= 1
       /\ returned[s] # {} => returned[s] = {get_conversation(s)}
  /\ \A s1, s2 \in NamedSessions :
       s1 # s2 => returned[s1] \cap returned[s2] = {}

\* C11 witness: calls naming two different session ids were handed two
\* different conversations, both still stored.
C11_Witness ==
  \E s1, s2 \in NamedSessions \ deleted_sessions :
    /\ s1 # s2
    /\ returned[s1] = {get_conversation(s1)}
    /\ returned[s2] = {get_conversation(s2)}
    /\ get_conversation(s1) # None
    /\ get_conversation(s2) # None
    /\ get_conversation(s1) # get_conversation(s2)

\* C12: no two conversations of the per-user lists have the same
\* session_id, every entry of the session index is the owner and the
\* conversation of that session_id, listed under that owner and not deleted,
\* and every listed conversation is the one the index holds for its
\* session_id.
C12_OneConversationPerSession ==
  /\ \A p \in Listed : listed_id(p) \in DOMAIN conversations
  /\ \A p, q \in Listed :
       p # q => conversations[listed_id(p)].session_id
                  # conversations[listed_id(q)].session_id
  /\ \A s \in DOMAIN session_index :
       /\ session_index[s][2] \in DOMAIN conversations
       /\ conversations[session_index[s][2]].session_id = s
       /\ \E p \in Listed :
            p[1] = session_index[s][1] /\ listed_id(p) = session_index[s][2]
  /\ \A p \in Listed :
       LET sid == conversations[listed_id(p)].session_id
       IN /\ sid \in DOMAIN session_index
          /\ session_index[sid] = <<p[1], listed_id(p)>>

\* C12 witness: one conversation was deleted and another, created under a
\* generated session id, is stored and indexed.
C12_Witness ==
  /\ deleted_sessions # {}
  /\ \E p \in Listed :
       LET sid == conversations[listed_id(p)].session_id
       IN /\ sid \notin NamedSessions
          /\ sid \notin deleted_sessions
          /\ session_index[sid] = <<p[1], listed_id(p)>>
          /\ conversations[listed_id(p)].messages # <<>>

----------------------------------------------------------------------------
(* Properties of the store under concurrent requests, checked under        *)
(* SpecThreads                                                             *)

\* C13: under every interleaving of append_message calls, the messages that
\* the calls naming a session id have appended are all in the one
\* conversation get_conversation gives for that id, in the order in which
\* the appends happened.
C13_AtomicAppends ==
  \A s \in NamedSessions :
    appended[s] # <<>> =>
      /\ get_conversation(s) # None
      /\ conversations[get_conversation(s)].messages = appended[s]

\* the session id of the conversation the call of thread t is about: the id
\* it names or, for a call naming none, the generated one
session_of(t) ==
  IF threads[t].session_id # NoSession THEN threads[t].session_id
  ELSE IF threads[t].conversation # None
    THEN conversations[threads[t].conversation].session_id
  ELSE new_session_id

\* the users whose list holds conversation c
owners(by_user, c) ==
  {u \in Users : \E k \in 1..Len(by_user[u]) : by_user[u][k] = c}

\* the step leaves every conversation of a session other than sid as it is:
\* its id, creation time and messages, and the list it is in
others_unchanged(sid) ==
  \A c \in DOMAIN conversations :
    conversations[c].session_id # sid =>
      /\ c \in DOMAIN conversations'
      /\ conversations'[c] = conversations[c]
      /\ owners(conversations_by_user', c) = owners(conversations_by_user, c)

\* C15: under every interleaving, a step of an append_message or
\* get_or_create_conversation call for one session leaves the messages, id,
\* owner and creation time of every conversation of another session
\* unchanged.
C15_NoCrossSessionInterference ==
  [][\A t \in Threads : ThreadStep(t) => others_unchanged(session_of(t))]_vars

\* C15 witness: calls naming two different sessions have both appended, and
\* each session's conversation holds exactly the messages of its own calls,
\* while a further call is under way.
C15_Witness ==
  \E s1, s2 \in NamedSessions :
    /\ s1 # s2
    /\ appended[s1] # <<>>
    /\ appended[s2] # <<>>
    /\ get_conversation(s1) # None
    /\ get_conversation(s2) # None
    /\ conversations[get_conversation(s1)].messages = appended[s1]
    /\ conversations[get_conversation(s2)].messages = appended[s2]
    /\ \E t \in Threads : threads[t].pc \notin {"idle", "done"}

----------------------------------------------------------------------------
(* Greetings and empty input                                               *)

\* the one-word greetings
GreetingWords ==
  {<<"h","i">>, <<"h","e","l","l","o">>, <<"h","e","y">>,
   <<"m","e","n","u">>, <<"h","e","l","p">>}

\* C16: when the question resolves to no drug and is one of the greeting
\* words hi, hello, hey, menu, help in any casing, RAGService.query returns
\* the welcome text and consults no backend.  Checked under Spec.
C16_GreetingIntent ==
  (Queried /\ drug = NoDrug /\ Lower(question) \in GreetingWords) =>
    (response.kind = "welcome" /\ ~backend.consulted)

\* C17: for empty or whitespace-only text search_drug and
\* _extract_drug_from_query return no record.  Checked under SpecResolver.
C17_DeclinesEmptyInput ==
  (Resolved /\ Strip(question) = <<>>) => drug = NoDrug

----------------------------------------------------------------------------
(* Properties of the chat endpoints, checked under SpecChat                *)

\* a request has just been answered by endpoint e
Answers(e) == http'.requests # http.requests /\ http'.endpoint = e

\* the roles of the spec's messages
MessageRoles == {<<"u","s","e","r">>, <<"a","s","s","i","s","t","a","n","t">>}

\* C14: after process_chat_message has answered a non-empty message for
\* session S, the conversation of S ends with the user's text as a message
\* of role user followed by the engine's response as a message of role
\* assistant, and every message in the store has role user or assistant.
C14_TurnStored ==
  (http.endpoint = "message" /\ http.status = 200) =>
    LET c == get_conversation(flask_session.chat_session_id)
    IN /\ c # None
       /\ Len(conversations[c].messages) >= 2
       /\ LET n == Len(conversations[c].messages)
          IN /\ conversations[c].messages[n - 1].role = <<"u","s","e","r">>
             /\ conversations[c].messages[n - 1].content
                  = get_stripped(http.message)
             /\ conversations[c].messages[n].role
                  = <<"a","s","s","i","s","t","a","n","t">>
             /\ conversations[c].messages[n].content = text_of(http.response)
       /\ \A k \in DOMAIN conversations :
            \A i \in 1..Len(conversations[k].messages) :
              conversations[k].messages[i].role \in MessageRoles

\* the body of request h has no message (or drug name), an empty one or a
\* whitespace-only one
empty_request(h) ==
  \/ h.message.kind \in {"absent", "null"}
  \/ Strip(h.message.text) = <<>>

\* C18: a request to process_chat_message, process_chat_query or search_drug
\* whose message (or drug name) is missing, empty or whitespace-only gets an
\* error result, the engine is not called, and the conversation store and
\* the session (its chat history included) stay as they were.
C18_EmptyRejected ==
  [][(http'.requests # http.requests /\ empty_request(http')) =>
       /\ http'.status \in {400, 500}
       /\ ~http'.invoked
       /\ UNCHANGED store_vars
       /\ flask_session' = flask_session]_vars

\* C18 witness: a whitespace-only message was rejected by a client whose
\* earlier turn is in the store or in the session history.
C18_Witness ==
  /\ http.requests = 2
  /\ http.message.kind = "text"
  /\ http.message.text # <<>>
  /\ empty_request(http)
  /\ http.status = 400
  /\ (DOMAIN conversations # {} \/ flask_session.chat_history # <<>>)

\* C19: for every record of DRUG_DATABASE and both audiences
\* _format_drug_response gives a non-empty text that contains the record's
\* display name, and a request that the drug-search endpoint answers with a
\* formatted record leaves the store and the session as they were.  The
\* formatter reads no state: its texts for all the records are examined at
\* the first request, the text returned at every request.
C19_FormatterComplete ==
  [][Answers("drug-search") =>
       /\ http.requests = 0 =>
            \A d \in 1..Len(DRUG_DATABASE),
               audience \in {"patient", "student"} :
              /\ text_of(format_drug_response(d, audience)) # <<>>
              /\ Contains(text_of(format_drug_response(d, audience)),
                          DRUG_DATABASE[d].name)
       /\ http'.response.kind \in RecordKinds =>
            /\ text_of(http'.response) # <<>>
            /\ Contains(text_of(http'.response),
                        DRUG_DATABASE[http'.response.drug].name)
            /\ UNCHANGED store_vars
            /\ flask_session' = flask_session]_vars

\* C19 witness: the drug-search endpoint returned the patient text of a
\* record whose display name differs from its generic name, after an
\* earlier request.
C19_Witness ==
  /\ http.requests = 2
  /\ http.endpoint = "drug-search"
  /\ http.status = 200
  /\ http.response.kind = "patient_record"
  /\ DRUG_DATABASE[http.response.drug].name
       # DRUG_DATABASE[http.response.drug].generic
  /\ Contains(text_of(http.response), DRUG_DATABASE[http.response.drug].name)

\* the audience of the last request: process_chat_message reads it in the
\* session, the other endpoints in the body
audience_of(h) ==
  IF h.endpoint = "message" THEN flask_session.user_type ELSE h.user_type

\* C20: a matched drug is rendered with the student presentation when the
\* audience is exactly "student", and with the patient presentation when it
\* is unspecified or any other value.
C20_AudienceDefault ==
  (http.status = 200 /\ http.response.kind \in RecordKinds) =>
    IF audience_of(http) = "student"
      THEN http.response = format_student_response(http.response.drug)
      ELSE http.response = format_patient_response(http.response.drug)

\* C20 witness: a /query request that names no audience, or names "Student",
\* got the patient presentation of a matched drug.
C20_Witness ==
  /\ http.endpoint = "query"
  /\ http.user_type \in {"unset", "Student"}
  /\ http.status = 200
  /\ http.response.kind = "patient_record"
  /\ http.response.drug # NoDrug

----------------------------------------------------------------------------
(* Integrity of the alias table, checked under SpecResolver                *)

\* C21: every alias of DRUG_ALIASES maps to a key stored in DRUG_DATABASE,
\* and no call of search_drug or _extract_drug_from_query ends in a failed
\* lookup: it returns a record of the table or None and does not raise.
\* No operation writes the two tables.
C21_AliasTargetsExist ==
  /\ \A a \in 1..Len(DRUG_ALIASES) :
       db_lookup(DRUG_ALIASES[a].key) \in 1..Len(DRUG_DATABASE)
  /\ pc = "done" =>
       /\ drug \in (1..Len(DRUG_DATABASE)) \cup {NoDrug}
       /\ ~raised

\* C21 witness: search_drug found its record through the substring test over
\* the aliases, the three earlier steps having found none.
C21_Witness ==
  /\ pc = "done"
  /\ op = "search_drug"
  /\ direct_match(normalize(question)) = NoDrug
  /\ alias_match(normalize(question)) = NoDrug
  /\ first_partial_match(normalize(question)) = NoDrug
  /\ drug \in 1..Len(DRUG_DATABASE)
  /\ drug = first_alias_partial_match(normalize(question))

----------------------------------------------------------------------------
(* The singleton service, checked under SpecSingleton                      *)

\* C22: under every interleaving of the callers of get_rag_service at most
\* one RAGService object is constructed, and all callers that have returned
\* hold the same object.
C22_ConstructedOnce ==
  /\ instances <= 1
  /\ \A g, h \in Getters :
       (getters[g].pc = "done" /\ getters[h].pc = "done") =>
         getters[g].result = getters[h].result

----------------------------------------------------------------------------
(* The send window, checked under SpecWindow                               *)

\* record_user_message(n) was last called less than 24 hours ago
recently_recorded(n) ==
  n \in DOMAIN recorded_at /\ clock - recorded_at[n] < WindowHours

\* a call of can_send_message or get_session_status returns in this step
WindowAnswered(o) ==
  /\ window_reply' # window_reply
  /\ window_reply'.op = o

\* the sessions of the numbers other than n stay as they are
other_sessions_kept(n) ==
  \A m \in Phones \ {n} :
    /\ (m \in DOMAIN user_sessions') = (m \in DOMAIN user_sessions)
    /\ m \in DOMAIN user_sessions => user_sessions'[m] = user_sessions[m]

\* C26: at every time can_send_message(n) is true exactly when
\* record_user_message(n) was last called less than 24 hours before (false
\* for a number never recorded) and get_session_status(n).window_open agrees
\* with it; the answer a call of either method returns is that value; and a
\* call of record_user_message restarts the 24 hours of its number alone.
C26_SendWindow ==
  /\ [](\A n \in Phones :
          /\ can_send_message(n) = recently_recorded(n)
          /\ get_session_status(n).window_open = can_send_message(n))
  /\ [][/\ WindowAnswered("can_send_message") =>
             window_reply'.can_send = recently_recorded(window_reply'.number)
        /\ WindowAnswered("get_session_status") =>
             window_reply'.window_open
               = recently_recorded(window_reply'.number)
        /\ user_sessions' # user_sessions =>
             \E n \in Phones :
               /\ n \in DOMAIN user_sessions'
               /\ user_sessions'[n].last_message = clock
               /\ other_sessions_kept(n)]_vars

\* C26 witness: exactly 24 hours after the last record_user_message("n1")
\* can_send_message("n1") read that record and returned false, while the
\* window of n2, recorded later, is still open.
C26_Witness ==
  /\ window_reply.op = "can_send_message"
  /\ window_reply.number = "n1"
  /\ "n1" \in DOMAIN recorded_at
  /\ window_reply.last_message = recorded_at["n1"]
  /\ clock - recorded_at["n1"] = WindowHours
  /\ ~window_reply.can_send
  /\ can_send_message("n2")

----------------------------------------------------------------------------
(* Properties of the webhook, checked under SpecWebhook and SpecHistory    *)

\* deliveries i and j carried the same text to the same RAG service, whose
\* backends behaved the same way
same_question(i, j) ==
  /\ deliveries[i].text = deliveries[j].text
  /\ deliveries[i].services.rag_service = deliveries[j].services.rag_service
  /\ deliveries[i].llm = deliveries[j].llm
  /\ deliveries[i].backend = deliveries[j].backend

\* C23: two deliveries of the same text get the same reply from
\* _process_user_query whatever the send window of the sender was (never
\* opened, open, expired) and whether or not there was a WhatsApp service.
C23_WindowIndependent ==
  \A i, j \in DOMAIN deliveries :
    same_question(i, j) => deliveries[i].response = deliveries[j].response

\* C23 witness: the same drug question was answered once without a WhatsApp
\* service and once with one, for a number whose window had never been
\* opened, with the same formatted record.
C23_Witness ==
  /\ Len(deliveries) = 2
  /\ same_question(1, 2)
  /\ deliveries[1].window = "no_service"
  /\ deliveries[2].window = "never"
  /\ deliveries[2].sent
  /\ deliveries[1].response.kind = "patient_record"
  /\ deliveries[2].response = deliveries[1].response

\* C24: every delivered text gets a non-empty reply and the call of
\* _process_user_query does not raise; when no intent matches and the RAG
\* service is absent, raises or returns an empty response, the reply is the
\* default help reply.
C24_AlwaysReplies ==
  \A i \in DOMAIN deliveries :
    /\ ~deliveries[i].raised
    /\ ~IsEmptyText(deliveries[i].response)
    /\ text_of(deliveries[i].response) # <<>>
    /\ (/\ webhook_intent(deliveries[i].text) = NoResponse
        /\ deliveries[i].services.rag_service
             \in {"none", "raising", "empty"}) =>
         deliveries[i].response = webhook_default(deliveries[i].text)

\* C24 witness: a RAG service whose query raised and one that returned an
\* empty response both led to the default help reply.
C24_Witness ==
  /\ Len(deliveries) = 1
  /\ deliveries[1].services.rag_service \in {"raising", "empty"}
  /\ deliveries[1].invoked
  /\ deliveries[1].response.kind = "wa_default"
  /\ ~deliveries[1].raised

\* RAGService.query was called in delivery i
queried(i) ==
  deliveries[i].invoked /\ deliveries[i].services.rag_service = "present"

EndsWith(s, t) ==
  /\ Len(t) <= Len(s)
  /\ SubSeq(s, Len(s) - Len(t) + 1, Len(s)) = t

\* the context lines of the most recent messages recorded for number n
recent_lines(n) ==
  LET recent == LastN(recorded_messages[n], MAX_CONTEXT_MESSAGES)
  IN [i \in 1..Len(recent) |-> context_line(recent[i])]

\* the history of n is bounded, a suffix of what was recorded, and its
\* context holds the most recent messages in order
history_kept(n) ==
  /\ Len(user_conversations[n]) <= 2 * MAX_CONTEXT_MESSAGES
  /\ EndsWith(recorded_messages[n], user_conversations[n])
  /\ Len(recent_lines(n)) <= MAX_CONTEXT_MESSAGES
  /\ get_conversation_context(user_conversations[n])
       = JoinLines(recent_lines(n))

\* the message recorded last for n
last_recorded(n) == recorded_messages[n][Len(recorded_messages[n])]

\* C28 as stated: the history is bounded and ordered, and the context ends
\* with the whole text of the message recorded last.
C28_ContextEndsWithMessage ==
  \A n \in Phones :
    /\ history_kept(n)
    /\ recorded_messages[n] # <<>> =>
         EndsWith(get_conversation_context(user_conversations[n]),
                  last_recorded(n).role \o <<":"," ">>
                    \o last_recorded(n).text)

\* C28: after any sequence of _record_message calls the history of a number
\* has at most 10 entries and is a contiguous suffix, in order, of the
\* messages recorded for it; its context holds the 5 most recent messages in
\* order and ends with the message recorded last, cut to its first 200
\* characters.
C28_HistoryBounded ==
  \A n \in Phones :
    /\ history_kept(n)
    /\ recorded_messages[n] # <<>> =>
         EndsWith(get_conversation_context(user_conversations[n]),
                  last_recorded(n).role \o <<":"," ">>
                    \o FirstN(last_recorded(n).text, ContextTextLimit))

\* C28 witness: the eleventh message recorded for n1 cut its history to the
\* five most recent messages.
C28_Witness ==
  /\ Len(recorded_messages["n1"]) = 2 * MAX_CONTEXT_MESSAGES + 1
  /\ Len(user_conversations["n1"]) = MAX_CONTEXT_MESSAGES
  /\ user_conversations["n1"]
       = LastN(recorded_messages["n1"], MAX_CONTEXT_MESSAGES)
  /\ last_recorded("n1").role = UserRole

----------------------------------------------------------------------------
(* Properties of deletion, checked under SpecStore, and of ownership,      *)
(* checked under SpecUpload                                                *)

\* the elements of a list
ids_of(list) == {list[k] : k \in 1..Len(list)}

\* the ids of the conversations the per-user lists by_user hold
ids_listed(by_user) == UNION {ids_of(by_user[u]) : u \in Users}

\* a list without the conversation id
without(list, id) == SelectSeq(list, LAMBDA c : c # id)

\* conversation c, and nothing else, has left the lists and the index
removed_exactly(c) ==
  /\ \A u \in Users :
       conversations_by_user'[u] = without(conversations_by_user[u], c)
  /\ DOMAIN session_index'
       = DOMAIN session_index \ {conversations[c].session_id}
  /\ \A s \in DOMAIN session_index' : session_index'[s] = session_index[s]
  /\ \A d \in DOMAIN conversations \ {c} :
       d \in DOMAIN conversations' /\ conversations'[d] = conversations[d]

\* delete_conversation(id), called in the state as it is, returns True and
\* a store without exactly that conversation when a list holds the id, and
\* False and the store as it is when none does
delete_answers(id) ==
  LET done == delete_conversation(id)
  IN IF id \in ids_listed(conversations_by_user)
       THEN /\ done.deleted
            /\ \A u \in Users :
                 done.by_user[u] = without(conversations_by_user[u], id)
            /\ DOMAIN done.index
                 = DOMAIN session_index \ {conversations[id].session_id}
            /\ \A s \in DOMAIN done.index :
                 done.index[s] = session_index[s]
     ELSE /\ ~done.deleted
          /\ done.by_user = conversations_by_user
          /\ done.index = session_index
          /\ done.conversations = conversations

\* C25: in every state reached, delete_conversation(id) removes exactly the
\* conversation with that id from its owner's list and from the session
\* index and returns True, or returns False and changes nothing when no
\* conversation has that id; and a conversation leaves the per-user lists
\* only in a step of delete_conversation, which takes out that conversation
\* alone and leaves every other conversation as it was.
C25_RemovedOnlyByDelete ==
  /\ [](\A id \in ConversationIds : delete_answers(id))
  /\ [][\A c \in ids_listed(conversations_by_user)
                  \ ids_listed(conversations_by_user') :
          /\ removed_exactly(c)
          /\ deleted_sessions'
               = deleted_sessions \cup {conversations[c].session_id}
          /\ UNCHANGED <<conversation_id_counter, appended, returned>>]_vars

\* C25 witness: one of two conversations was deleted and the other one is
\* still listed and indexed with its messages.
C25_Witness ==
  /\ deleted_sessions # {}
  /\ conversation_id_counter = MaxConversations + 1
  /\ \E u \in Users :
       /\ Len(conversations_by_user[u]) = 1
       /\ conversations[conversations_by_user[u][1]].messages # <<>>
       /\ conversations[conversations_by_user[u][1]].session_id
            \in DOMAIN session_index
  /\ \E id \in ConversationIds : ~delete_conversation(id).deleted

\* the conversation append_message(u, role, content, s) appends to, called
\* in the state as it is, is listed for u after the call
appends_to_own(u, s) ==
  \A now \in Timestamps, content \in Contents :
    LET st == append_message_in(store_now, u, UserSender, content, s, now)
    IN st.id \in ids_of(list_of(st.by_user, u))

\* the conversation an upload with form fields user_email u and session_id
\* s writes to is listed for u after the request
uploads_to_own(u, s) ==
  \A now \in Timestamps, file \in UploadedFiles :
    LET done == upload_image(file, u, s, now)
    IN done.status = 200 =>
         done.id \in ids_of(list_of(done.store.by_user, u))

\* C29: in every state reached, for every user u and session id s, the
\* conversation that receives the message of append_message(u, role,
\* content, s), or of an upload naming u and s, is one of the conversations
\* list_history(u) lists after the call.
C29_AppendsToOwnConversation ==
  \A u \in Users, s \in NamedSessions \cup {NoSession} :
    appends_to_own(u, s) /\ uploads_to_own(u, s)

----------------------------------------------------------------------------
(* Properties of the accounts, checked under SpecAuth                      *)

\* a call of login has returned in this step
login_returned == auth_reply' # auth_reply /\ auth_reply'.op = "login"

\* C30: a login naming an email that is registered in users_db returns a
\* success token only when the hash of the password given equals the stored
\* password hash, and with another password it leaves the stored record as
\* it was and adds no token.
C30_LoginAuthenticates ==
  [][(login_returned /\ auth_reply'.email \in DOMAIN users_db) =>
       LET user == users_db[auth_reply'.email]
           matches ==
             user.password_hash = hash_password(auth_reply'.password)
       IN /\ auth_reply'.success => matches
          /\ ~matches =>
               /\ users_db'[auth_reply'.email] = user
               /\ tokens_db' = tokens_db]_vars

====
